---- MODULE Spec2Model ----
(***************************************************************************)
(* Model of the event-sourced cost-basis reconstructors of lp-monitor:     *)
(* calculateMeteoraPositionPNLUsd and calculateMeteoraPositionPNLTokenB    *)
(* (src/lp-monitor/src/services/pnlCalculationService.ts).                 *)
(*                                                                         *)
(* One behaviour is one call of one of the two functions: Init is the      *)
(* state at the top of the for-loop (accumulators at 0, parameters drawn   *)
(* from small sets), each step of the loop consumes the next event of the  *)
(* sorted list allEvents, and the step after the loop either throws or     *)
(* computes the returned values.                                           *)
(*                                                                         *)
(* JavaScript numbers are modelled as exact rationals extended with the    *)
(* IEEE-754 special values Infinity, -Infinity and NaN; rounding of        *)
(* finite results is not modelled.                                         *)
(***************************************************************************)
EXTENDS Integers, Sequences, FiniteSets, TLC

(***************************************************************************)
(* Bounds of the model.                                                    *)
(***************************************************************************)
\* longest event list that is folded
MaxEvents == 3

\* raw token amounts one event can carry, and the USD price of one raw unit at
\* the time of the event (0: the indexer has no price for the token)
TokenXAmounts == {0, 1, 2}
TokenXPrices == {500}
TokenYAmounts == {0, 1}
TokenYPrices == {0, 50}
\* decimals of token X and token Y of the pools
TokenMetadata == {<<0, 1>>, <<1, 0>>}
\* current position values and current token B prices handed to the functions
\* (processPnlForPositions passes 0 when the position carries no price)
PositionValues == {0, 1200}
TokenBPrices == {0, 2}

(***************************************************************************)
(* JavaScript numbers.  A number is a record [k, n, d]:                    *)
(*   k = "fin": the rational n/d in lowest terms, d > 0                    *)
(*   k = "inf": Infinity (n = 1) or -Infinity (n = -1)                     *)
(*   k = "nan": NaN                                                        *)
(***************************************************************************)
Abs(i) == IF i < 0 THEN -i ELSE i

Sgn(i) == IF i < 0 THEN -1 ELSE IF i > 0 THEN 1 ELSE 0

RECURSIVE Gcd(_, _)
Gcd(a, b) == IF b = 0 THEN a ELSE Gcd(b, a % b)

Fin(n, d) ==
    LET g == Gcd(Abs(n), Abs(d))
    IN  [k |-> "fin", n |-> (Sgn(d) * n) \div g, d |-> Abs(d) \div g]

Num(i) == [k |-> "fin", n |-> i, d |-> 1]

Infinity(s) == [k |-> "inf", n |-> s, d |-> 1]

NaN == [k |-> "nan", n |-> 0, d |-> 1]

IsNaN(a) == a.k = "nan"

IsFinite(a) == a.k = "fin"

\* sign of a number that is not NaN
SignOf(a) == Sgn(a.n)

Neg(a) == [a EXCEPT !.n = -a.n]

\* a + b
Add(a, b) ==
    IF IsNaN(a) \/ IsNaN(b) THEN NaN
    ELSE IF a.k = "inf" /\ b.k = "inf" THEN (IF a.n = b.n THEN a ELSE NaN)
    ELSE IF a.k = "inf" THEN a
    ELSE IF b.k = "inf" THEN b
    ELSE LET g == Gcd(a.d, b.d)
         IN  Fin(a.n * (b.d \div g) + b.n * (a.d \div g), (a.d \div g) * b.d)

\* a - b
Sub(a, b) == Add(a, Neg(b))

\* a * b
Mul(a, b) ==
    IF IsNaN(a) \/ IsNaN(b) THEN NaN
    ELSE IF a.k = "inf" \/ b.k = "inf"
         THEN (IF SignOf(a) = 0 \/ SignOf(b) = 0 THEN NaN
               ELSE Infinity(SignOf(a) * SignOf(b)))
    ELSE LET g == Gcd(Abs(a.n), b.d)
             h == Gcd(Abs(b.n), a.d)
         IN  Fin((a.n \div g) * (b.n \div h), (a.d \div h) * (b.d \div g))

\* a / b; every zero divisor of the model is +0
Div(a, b) ==
    IF IsNaN(a) \/ IsNaN(b) THEN NaN
    ELSE IF a.k = "inf" /\ b.k = "inf" THEN NaN
    ELSE IF a.k = "inf" THEN Infinity(IF SignOf(b) < 0 THEN -a.n ELSE a.n)
    ELSE IF b.k = "inf" THEN Num(0)
    ELSE IF b.n = 0 THEN (IF a.n = 0 THEN NaN ELSE Infinity(SignOf(a)))
    ELSE LET g == Gcd(Abs(a.n), Abs(b.n))
             h == Gcd(a.d, b.d)
         IN  Fin((a.n \div g) * (b.d \div h), (a.d \div h) * (b.n \div g))

\* a < b (false when either is NaN)
Lt(a, b) ==
    IF IsNaN(a) \/ IsNaN(b) THEN FALSE
    ELSE IF a.k = "inf" THEN a.n = -1 /\ ~(b.k = "inf" /\ b.n = -1)
    ELSE IF b.k = "inf" THEN b.n = 1
    ELSE LET g == Gcd(a.d, b.d)
         IN  a.n * (b.d \div g) < b.n * (a.d \div g)

\* a > b
Gt(a, b) == Lt(b, a)

\* a <= b
Le(a, b) == Lt(a, b) \/ (~IsNaN(a) /\ a = b)

\* a === b
StrictEq(a, b) == ~IsNaN(a) /\ ~IsNaN(b) /\ a = b

\* Math.min(a, b)
MathMin(a, b) ==
    IF IsNaN(a) \/ IsNaN(b) THEN NaN ELSE IF Lt(b, a) THEN b ELSE a

\* Math.max(a, b)
MathMax(a, b) ==
    IF IsNaN(a) \/ IsNaN(b) THEN NaN ELSE IF Lt(a, b) THEN b ELSE a

\* Math.pow(10, e) for a natural e
RECURSIVE Pow10(_)
Pow10(e) == IF e = 0 THEN 1 ELSE 10 * Pow10(e - 1)

MathPow10(e) == Num(Pow10(e))


(***************************************************************************)
(* Events.  fetchDeposits, fetchWithdrawals and fetchFeeClaims tag every   *)
(* record with its event_type; the amounts are raw token amounts and the   *)
(* USD values of the two sides at event time, which the indexer computes   *)
(* as amount times the price of the token at that time.                    *)
(***************************************************************************)
EventTypes == {"Deposit", "Withdrawal", "Claim Fees"}

PnlEvent ==
    {[event_type |-> t,
      token_x_amount |-> ax,
      token_y_amount |-> ay,
      token_x_usd_amount |-> ax * px,
      token_y_usd_amount |-> ay * py] :
        t \in EventTypes, ax \in TokenXAmounts, px \in TokenXPrices,
        ay \in TokenYAmounts, py \in TokenYPrices}

\* value of the locals of a block that has not been executed
NoLocals == [none |-> TRUE]

VARIABLES
    fn,                       \* which reconstructor runs: "Usd" or "TokenB"
    pc,                       \* "loop", "returned" or "thrown"
    nEvents,                  \* number of events of allEvents consumed so far
    event_type,               \* event_type of the event consumed last, or "none"
    tokenXDecimals, tokenYDecimals,
    currentTokenBPriceUsd,
    cumulativeClaimedX, cumulativeClaimedY,
    availableClaimedX, availableClaimedY,
    capitalDepositsUsd, totalDepositUsd, totalFeeRewardUsd, totalWithdrawalUsd,
    capitalDepositsTokenB, totalDepositTokenB, totalFeeRewardTokenB,
    totalWithdrawalTokenB,
    deposit,                  \* locals of the Deposit branch of the last step
    out                       \* locals computed after the loop

params == <<fn, tokenXDecimals, tokenYDecimals, currentTokenBPriceUsd>>

claimed == <<cumulativeClaimedX, cumulativeClaimedY,
             availableClaimedX, availableClaimedY>>

accUsd == <<capitalDepositsUsd, totalDepositUsd, totalFeeRewardUsd,
            totalWithdrawalUsd>>

accTokenB == <<capitalDepositsTokenB, totalDepositTokenB, totalFeeRewardTokenB,
               totalWithdrawalTokenB>>

\* state of the fetch-and-sort prologue of the two functions
VARIABLES
    indexed,                  \* the events the indexer holds for the position
    deposits, withdrawals, feeClaims,
    allEvents,
    folded                    \* allEvents of every call made so far

sortVars == <<indexed, deposits, withdrawals, feeClaims, allEvents, folded>>

\* state of processPnlForPositions
VARIABLES
    positions,                \* number of positions handed to the call
    pos,                      \* index of the position of the current iteration
    results,
    errors                    \* positions whose error console.error reported

batchVars == <<positions, pos, results, errors>>

\* state of the Krystal PnL computation (python/krystal_pnl)
VARIABLES
    SKIP_SYMBOLS,             \* the excluded symbols
    row,                      \* the row of the current iteration
    detail_rows,
    closed_agg,
    open_rows,
    call,                     \* arguments of the liquidity-math functions
    ret                       \* what they returned

krystalVars == <<SKIP_SYMBOLS, row, detail_rows, closed_agg, open_rows, call, ret>>

\* state of the merge of the aggregates (python/krystal_pnl)
VARIABLES
    open_agg,                 \* open_rows grouped by chain, pool and account
    final_df                  \* the merged table

mergeVars == <<open_agg, final_df>>

\* state of the position tracking (positionTrackingService, Meteora adapter)
VARIABLES
    onchain,                  \* of each position: not created, held or closed
    openPositions,            \* the keys loadOpenPositions returns
    closedPositions,          \* the keys loadClosedPositions returns
    op                        \* the call made last

trackVars == <<onchain, openPositions, closedPositions, op>>

\* state of main() of the lp-monitor (index.ts)
VARIABLES
    flagsFile,                \* the content of the error-flags file
    errorFlags,               \* the object main() holds
    run,                      \* number of the run of main(), also its clock
    wallet,                   \* wallets of the current loop already processed
    allMeteoraRecords,        \* number of records collected
    allKrystalRecords,
    meteoraSuccess,
    krystalSuccess,
    latestCsv,                \* records in the two latest-positions files
    thrown,                   \* wallets whose processing threw in this run
    fetchError                \* wallets whose upstream fetch failed in this run

mainVars == <<flagsFile, errorFlags, run, wallet, allMeteoraRecords,
              allKrystalRecords, meteoraSuccess, krystalSuccess, latestCsv,
              thrown, fetchError>>

\* state of a call of withRetry (Meteora adapter, token mapping service)
VARIABLES
    retries,                  \* the parameter
    loop_i,                   \* the loop variable i
    attempts,                 \* what the calls of fn made so far ended with
    lastError,
    settled,                  \* what withRetry returned or threw
    rateLimitCalls,           \* calls of rateLimit
    dateNow,                  \* Date.now(), in ms
    lastCallTimestamp

retryVars == <<retries, loop_i, attempts, lastError, settled, rateLimitCalls,
               dateNow, lastCallTimestamp>>

restVars == <<mergeVars, trackVars, mainVars, retryVars>>

\* the variables outside one run of the for-loop of a reconstructor
others == <<sortVars, batchVars, krystalVars, restVars>>

vars == <<params, pc, nEvents, event_type, claimed, accUsd, accTokenB, deposit,
          out, others>>

\* the prologue has fetched nothing
SortIdle ==
    /\ indexed = {}
    /\ deposits = <<>> /\ withdrawals = <<>> /\ feeClaims = <<>>
    /\ allEvents = <<>>
    /\ folded = <<>>

\* no batch is running
BatchIdle ==
    /\ positions = 0
    /\ pos = 0
    /\ results = <<>>
    /\ errors = <<>>

\* the Krystal computation is not running
KrystalIdle ==
    /\ SKIP_SYMBOLS = {}
    /\ row = NoLocals
    /\ detail_rows = <<>>
    /\ closed_agg = NoLocals
    /\ open_rows = <<>>
    /\ call = NoLocals
    /\ ret = NoLocals

\* the aggregates are not merged
MergeIdle ==
    /\ open_agg = {}
    /\ final_df = {}

\* no position is tracked
TrackIdle ==
    /\ onchain = <<>>
    /\ openPositions = {}
    /\ closedPositions = {}
    /\ op = NoLocals

\* main() is not running
MainIdle ==
    /\ flagsFile = NoLocals
    /\ errorFlags = NoLocals
    /\ run = 0
    /\ wallet = 0
    /\ allMeteoraRecords = 0
    /\ allKrystalRecords = 0
    /\ meteoraSuccess = TRUE
    /\ krystalSuccess = TRUE
    /\ latestCsv = NoLocals
    /\ thrown = {}
    /\ fetchError = {}

\* withRetry is not running
RetryIdle ==
    /\ retries = 0
    /\ loop_i = 0
    /\ attempts = <<>>
    /\ lastError = NoLocals
    /\ settled = NoLocals
    /\ rateLimitCalls = 0
    /\ dateNow = 0
    /\ lastCallTimestamp = 0

\* nothing but the reconstructors and the Krystal loops runs
RestIdle ==
    /\ MergeIdle
    /\ TrackIdle
    /\ MainIdle
    /\ RetryIdle

(***************************************************************************)
(* Helpers of the two functions.                                           *)
(***************************************************************************)
eventUsdValue(evt) ==
    Add(Num(evt.token_x_usd_amount), Num(evt.token_y_usd_amount))

\* ReinvestedRatio without the cap at 1
ReinvestedRatioUncapped(availableAdjusted, depositAdjusted) ==
    IF Gt(depositAdjusted, Num(0))
    THEN Div(availableAdjusted, depositAdjusted)
    ELSE Num(0)

\* ReinvestedRatio with Math.max written for Math.min
ReinvestedRatioMax(availableAdjusted, depositAdjusted) ==
    IF Gt(depositAdjusted, Num(0))
    THEN MathMax(Div(availableAdjusted, depositAdjusted), Num(1))
    ELSE Num(0)

\* ReinvestedRatio with the operands of the division swapped
ReinvestedRatioSwapped(availableAdjusted, depositAdjusted) ==
    IF Gt(depositAdjusted, Num(0))
    THEN MathMin(Div(depositAdjusted, availableAdjusted), Num(1))
    ELSE Num(0)

\* depositAdjusted > 0 ? Math.min(availableAdjusted / depositAdjusted, 1) : 0
ReinvestedRatio(availableAdjusted, depositAdjusted) ==
    IF Gt(depositAdjusted, Num(0))
    THEN MathMin(Div(availableAdjusted, depositAdjusted), Num(1))
    ELSE Num(0)

\* DepositLocals with 1 + ratio written for 1 - ratio in the capital parts
DepositLocalsCapitalAdded(evt) ==
    LET depositXAdjusted == Div(Num(evt.token_x_amount), MathPow10(tokenXDecimals))
        depositYAdjusted == Div(Num(evt.token_y_amount), MathPow10(tokenYDecimals))
        availableXAdjusted == Div(availableClaimedX, MathPow10(tokenXDecimals))
        availableYAdjusted == Div(availableClaimedY, MathPow10(tokenYDecimals))
        ratioX == ReinvestedRatio(availableXAdjusted, depositXAdjusted)
        ratioY == ReinvestedRatio(availableYAdjusted, depositYAdjusted)
    IN  [depositXAdjusted |-> depositXAdjusted,
         depositYAdjusted |-> depositYAdjusted,
         reinvestedRatioX |-> ratioX,
         reinvestedRatioY |-> ratioY,
         reinvestedXUsd |-> Mul(Num(evt.token_x_usd_amount), ratioX),
         capitalXUsd |-> Mul(Num(evt.token_x_usd_amount), Add(Num(1), ratioX)),
         reinvestedYUsd |-> Mul(Num(evt.token_y_usd_amount), ratioY),
         capitalYUsd |-> Mul(Num(evt.token_y_usd_amount), Add(Num(1), ratioY)),
         reinvestedX |-> Mul(Num(evt.token_x_amount), ratioX),
         reinvestedY |-> Mul(Num(evt.token_y_amount), ratioY)]

\* DepositLocals with the ratio and its complement exchanged in the USD split
DepositLocalsSplitSwapped(evt) ==
    LET depositXAdjusted == Div(Num(evt.token_x_amount), MathPow10(tokenXDecimals))
        depositYAdjusted == Div(Num(evt.token_y_amount), MathPow10(tokenYDecimals))
        availableXAdjusted == Div(availableClaimedX, MathPow10(tokenXDecimals))
        availableYAdjusted == Div(availableClaimedY, MathPow10(tokenYDecimals))
        ratioX == ReinvestedRatio(availableXAdjusted, depositXAdjusted)
        ratioY == ReinvestedRatio(availableYAdjusted, depositYAdjusted)
    IN  [depositXAdjusted |-> depositXAdjusted,
         depositYAdjusted |-> depositYAdjusted,
         reinvestedRatioX |-> ratioX,
         reinvestedRatioY |-> ratioY,
         reinvestedXUsd |-> Mul(Num(evt.token_x_usd_amount), Sub(Num(1), ratioX)),
         capitalXUsd |-> Mul(Num(evt.token_x_usd_amount), ratioX),
         reinvestedYUsd |-> Mul(Num(evt.token_y_usd_amount), Sub(Num(1), ratioY)),
         capitalYUsd |-> Mul(Num(evt.token_y_usd_amount), ratioY),
         reinvestedX |-> Mul(Num(evt.token_x_amount), ratioX),
         reinvestedY |-> Mul(Num(evt.token_y_amount), ratioY)]

\* the locals of the Deposit branch, which is the same text in both functions
DepositLocals(evt) ==
    LET depositXAdjusted == Div(Num(evt.token_x_amount), MathPow10(tokenXDecimals))
        depositYAdjusted == Div(Num(evt.token_y_amount), MathPow10(tokenYDecimals))
        availableXAdjusted == Div(availableClaimedX, MathPow10(tokenXDecimals))
        availableYAdjusted == Div(availableClaimedY, MathPow10(tokenYDecimals))
        ratioX == ReinvestedRatio(availableXAdjusted, depositXAdjusted)
        ratioY == ReinvestedRatio(availableYAdjusted, depositYAdjusted)
    IN  [depositXAdjusted |-> depositXAdjusted,
         depositYAdjusted |-> depositYAdjusted,
         reinvestedRatioX |-> ratioX,
         reinvestedRatioY |-> ratioY,
         reinvestedXUsd |-> Mul(Num(evt.token_x_usd_amount), ratioX),
         capitalXUsd |-> Mul(Num(evt.token_x_usd_amount), Sub(Num(1), ratioX)),
         reinvestedYUsd |-> Mul(Num(evt.token_y_usd_amount), ratioY),
         capitalYUsd |-> Mul(Num(evt.token_y_usd_amount), Sub(Num(1), ratioY)),
         reinvestedX |-> Mul(Num(evt.token_x_amount), ratioX),
         reinvestedY |-> Mul(Num(evt.token_y_amount), ratioY)]

\* available = Math.max(0, available - reinvested)
DeductReinvested(available, reinvested) ==
    MathMax(Num(0), Sub(available, reinvested))

\* the new available-claimed amount of a token on a Claim Fees event
AvailableAfterClaim(available, cumulativeAfter) == cumulativeAfter

convertEventToTokenB(evt) ==
    LET tokenYAmount == Num(evt.token_y_amount)
        actualTokenYQuantity == Div(tokenYAmount, MathPow10(tokenYDecimals))
        tokenBPriceAtEvent == Div(Num(evt.token_y_usd_amount), actualTokenYQuantity)
    IN  IF StrictEq(tokenYAmount, Num(0))
        THEN Div(eventUsdValue(evt), currentTokenBPriceUsd)
        ELSE Div(eventUsdValue(evt), tokenBPriceAtEvent)

(***************************************************************************)
(* Init: the state of a call when the for-loop is entered.  The            *)
(* accumulators of the function that does not run stay at 0.               *)
(***************************************************************************)
Init ==
    /\ fn \in {"Usd", "TokenB"}
    /\ pc = "loop"
    /\ nEvents = 0
    /\ event_type = "none"
    /\ \E m \in TokenMetadata : tokenXDecimals = m[1] /\ tokenYDecimals = m[2]
    /\ currentTokenBPriceUsd \in
          IF fn = "TokenB" THEN {Num(v) : v \in TokenBPrices} ELSE {Num(0)}
    /\ cumulativeClaimedX = Num(0)
    /\ cumulativeClaimedY = Num(0)
    /\ availableClaimedX = Num(0)
    /\ availableClaimedY = Num(0)
    /\ capitalDepositsUsd = Num(0)
    /\ totalDepositUsd = Num(0)
    /\ totalFeeRewardUsd = Num(0)
    /\ totalWithdrawalUsd = Num(0)
    /\ capitalDepositsTokenB = Num(0)
    /\ totalDepositTokenB = Num(0)
    /\ totalFeeRewardTokenB = Num(0)
    /\ totalWithdrawalTokenB = Num(0)
    /\ deposit = NoLocals
    /\ out = NoLocals
    /\ SortIdle
    /\ BatchIdle
    /\ KrystalIdle
    /\ RestIdle

\* the loop takes the next event of allEvents
Consume(evt) ==
    /\ pc = "loop"
    /\ nEvents < MaxEvents
    /\ nEvents' = nEvents + 1
    /\ event_type' = evt.event_type
    /\ pc' = pc
    /\ UNCHANGED <<params, out, others>>

\* the Claim Fees branch on the claimed-token totals (same in both functions)
ClaimTokens(evt) ==
    /\ cumulativeClaimedX' = Add(cumulativeClaimedX, Num(evt.token_x_amount))
    /\ cumulativeClaimedY' = Add(cumulativeClaimedY, Num(evt.token_y_amount))
    /\ availableClaimedX' = AvailableAfterClaim(availableClaimedX, cumulativeClaimedX')
    /\ availableClaimedY' = AvailableAfterClaim(availableClaimedY, cumulativeClaimedY')

\* the end of the Deposit branch on the claimed-token totals
DeductTokens(d) ==
    /\ availableClaimedX' = DeductReinvested(availableClaimedX, d.reinvestedX)
    /\ availableClaimedY' = DeductReinvested(availableClaimedY, d.reinvestedY)
    /\ UNCHANGED <<cumulativeClaimedX, cumulativeClaimedY>>

(***************************************************************************)
(* calculateMeteoraPositionPNLUsd: one iteration of the loop per action.   *)
(***************************************************************************)
ClaimFeesUsd ==
    \E evt \in PnlEvent :
        /\ fn = "Usd" /\ evt.event_type = "Claim Fees"
        /\ Consume(evt)
        /\ ClaimTokens(evt)
        /\ totalFeeRewardUsd' = Add(totalFeeRewardUsd, eventUsdValue(evt))
        /\ deposit' = NoLocals
        /\ UNCHANGED <<capitalDepositsUsd, totalDepositUsd, totalWithdrawalUsd,
                       accTokenB>>

DepositUsd ==
    \E evt \in PnlEvent :
        /\ fn = "Usd" /\ evt.event_type = "Deposit"
        /\ Consume(evt)
        /\ LET d == DepositLocals(evt)
               costBasis == Add(d.capitalXUsd, d.capitalYUsd)
           IN  /\ capitalDepositsUsd' = Add(capitalDepositsUsd, costBasis)
               /\ totalDepositUsd' = Add(totalDepositUsd, eventUsdValue(evt))
               /\ DeductTokens(d)
               /\ deposit' = d
        /\ UNCHANGED <<totalFeeRewardUsd, totalWithdrawalUsd, accTokenB>>

\* WithdrawalUsd that also takes the withdrawn token amounts out of the
\* available-claimed amounts
WithdrawalUsdDeductsClaimed ==
    \E evt \in PnlEvent :
        /\ fn = "Usd" /\ evt.event_type = "Withdrawal"
        /\ Consume(evt)
        /\ totalWithdrawalUsd' = Add(totalWithdrawalUsd, eventUsdValue(evt))
        /\ availableClaimedX' =
               DeductReinvested(availableClaimedX, Num(evt.token_x_amount))
        /\ availableClaimedY' =
               DeductReinvested(availableClaimedY, Num(evt.token_y_amount))
        /\ deposit' = NoLocals
        /\ UNCHANGED <<cumulativeClaimedX, cumulativeClaimedY, capitalDepositsUsd,
                       totalDepositUsd, totalFeeRewardUsd, accTokenB>>

WithdrawalUsd ==
    \E evt \in PnlEvent :
        /\ fn = "Usd" /\ evt.event_type = "Withdrawal"
        /\ Consume(evt)
        /\ totalWithdrawalUsd' = Add(totalWithdrawalUsd, eventUsdValue(evt))
        /\ deposit' = NoLocals
        /\ UNCHANGED <<claimed, capitalDepositsUsd, totalDepositUsd,
                       totalFeeRewardUsd, accTokenB>>

\* reinvestedFees = totalDeposit - capitalDeposits
ReinvestedFees(totalDeposit, capitalDeposits) == Sub(totalDeposit, capitalDeposits)

\* TotalInflows without the reinvested fees
TotalInflowsWithoutReinvested(capitalDeposits, totalFeeReward, reinvestedFees) ==
    Add(capitalDeposits, totalFeeReward)

\* totalInflows = capitalDeposits + totalFeeReward + reinvestedFees
TotalInflows(capitalDeposits, totalFeeReward, reinvestedFees) ==
    Add(Add(capitalDeposits, totalFeeReward), reinvestedFees)

\* WithdrawalRatio without the cap at 1
WithdrawalRatioUncapped(totalWithdrawal, totalInflows) ==
    IF Gt(totalInflows, Num(0))
    THEN Div(totalWithdrawal, totalInflows)
    ELSE Num(0)

\* totalInflows > 0 ? Math.min(totalWithdrawal / totalInflows, 1) : 0
WithdrawalRatio(totalWithdrawal, totalInflows) ==
    IF Gt(totalInflows, Num(0))
    THEN MathMin(Div(totalWithdrawal, totalInflows), Num(1))
    ELSE Num(0)

\* NoDeposits with the guard left out
NoDepositsUnguarded(totalDeposit) == FALSE

\* if (totalDeposit === 0) throw new Error(`No deposits found ...`)
NoDeposits(totalDeposit) == StrictEq(totalDeposit, Num(0))

\* the statements after the guard, up to the returned object; the parameter
\* currentPositionValueUsd is read here for the first time, so the model draws
\* it here
UsdLocals(currentPositionValueUsd) ==
    LET reinvestedFeesUsd == ReinvestedFees(totalDepositUsd, capitalDepositsUsd)
        totalInflowsUsd ==
            TotalInflows(capitalDepositsUsd, totalFeeRewardUsd, reinvestedFeesUsd)
        withdrawalRatio == WithdrawalRatio(totalWithdrawalUsd, totalInflowsUsd)
        withdrawnCapitalUsd == Mul(capitalDepositsUsd, withdrawalRatio)
        remainingCapitalUsd == Sub(capitalDepositsUsd, withdrawnCapitalUsd)
    IN  [currentPositionValueUsd |-> currentPositionValueUsd,
         reinvestedFeesUsd |-> reinvestedFeesUsd,
         totalInflowsUsd |-> totalInflowsUsd,
         withdrawalRatio |-> withdrawalRatio,
         withdrawnCapitalUsd |-> withdrawnCapitalUsd,
         realizedPNLUsd |-> Sub(totalWithdrawalUsd, withdrawnCapitalUsd),
         remainingCapitalUsd |-> remainingCapitalUsd,
         unrealizedPNLUsd |-> Sub(currentPositionValueUsd, remainingCapitalUsd),
         netPNLUsd |-> Sub(Add(currentPositionValueUsd, totalWithdrawalUsd),
                           capitalDepositsUsd)]

AfterLoop ==
    /\ pc = "loop"
    /\ UNCHANGED <<params, nEvents, event_type, claimed, accUsd, accTokenB,
                   deposit, others>>

ThrowNoDepositsUsd ==
    /\ fn = "Usd"
    /\ AfterLoop
    /\ NoDeposits(totalDepositUsd)
    /\ pc' = "thrown"
    /\ out' = NoLocals

ReturnUsd ==
    /\ fn = "Usd"
    /\ AfterLoop
    /\ ~NoDeposits(totalDepositUsd)
    /\ pc' = "returned"
    /\ \E v \in PositionValues : out' = UsdLocals(Num(v))

(***************************************************************************)
(* calculateMeteoraPositionPNLTokenB.                                      *)
(***************************************************************************)
ClaimFeesTokenB ==
    \E evt \in PnlEvent :
        /\ fn = "TokenB" /\ evt.event_type = "Claim Fees"
        /\ Consume(evt)
        /\ ClaimTokens(evt)
        /\ totalFeeRewardTokenB' = Add(totalFeeRewardTokenB, convertEventToTokenB(evt))
        /\ deposit' = NoLocals
        /\ UNCHANGED <<capitalDepositsTokenB, totalDepositTokenB,
                       totalWithdrawalTokenB, accUsd>>

DepositTokenB ==
    \E evt \in PnlEvent :
        /\ fn = "TokenB" /\ evt.event_type = "Deposit"
        /\ Consume(evt)
        /\ LET d == DepositLocals(evt)
               costBasisTokenB ==
                   Div(Add(d.capitalXUsd, d.capitalYUsd), currentTokenBPriceUsd)
           IN  /\ capitalDepositsTokenB' = Add(capitalDepositsTokenB, costBasisTokenB)
               /\ totalDepositTokenB' =
                      Add(totalDepositTokenB, convertEventToTokenB(evt))
               /\ DeductTokens(d)
               /\ deposit' = d
        /\ UNCHANGED <<totalFeeRewardTokenB, totalWithdrawalTokenB, accUsd>>

WithdrawalTokenB ==
    \E evt \in PnlEvent :
        /\ fn = "TokenB" /\ evt.event_type = "Withdrawal"
        /\ Consume(evt)
        /\ totalWithdrawalTokenB' =
               Add(totalWithdrawalTokenB, convertEventToTokenB(evt))
        /\ deposit' = NoLocals
        /\ UNCHANGED <<claimed, capitalDepositsTokenB, totalDepositTokenB,
                       totalFeeRewardTokenB, accUsd>>

TokenBLocals(currentPositionValueUsd) ==
    LET reinvestedFeesTokenB ==
            ReinvestedFees(totalDepositTokenB, capitalDepositsTokenB)
        totalInflowsTokenB ==
            TotalInflows(capitalDepositsTokenB, totalFeeRewardTokenB,
                         reinvestedFeesTokenB)
        withdrawalRatio == WithdrawalRatio(totalWithdrawalTokenB, totalInflowsTokenB)
        withdrawnCapitalTokenB == Mul(capitalDepositsTokenB, withdrawalRatio)
        currentPositionValueTokenB ==
            Div(currentPositionValueUsd, currentTokenBPriceUsd)
        remainingCapitalTokenB == Sub(capitalDepositsTokenB, withdrawnCapitalTokenB)
    IN  [currentPositionValueUsd |-> currentPositionValueUsd,
         reinvestedFeesTokenB |-> reinvestedFeesTokenB,
         totalInflowsTokenB |-> totalInflowsTokenB,
         withdrawalRatio |-> withdrawalRatio,
         withdrawnCapitalTokenB |-> withdrawnCapitalTokenB,
         realizedPNLTokenB |-> Sub(totalWithdrawalTokenB, withdrawnCapitalTokenB),
         currentPositionValueTokenB |-> currentPositionValueTokenB,
         remainingCapitalTokenB |-> remainingCapitalTokenB,
         unrealizedPNLTokenB |->
             Sub(currentPositionValueTokenB, remainingCapitalTokenB),
         netPNLTokenB |-> Sub(Add(currentPositionValueTokenB, totalWithdrawalTokenB),
                              capitalDepositsTokenB)]

ThrowNoDepositsTokenB ==
    /\ fn = "TokenB"
    /\ AfterLoop
    /\ NoDeposits(totalDepositTokenB)
    /\ pc' = "thrown"
    /\ out' = NoLocals

ReturnTokenB ==
    /\ fn = "TokenB"
    /\ AfterLoop
    /\ ~NoDeposits(totalDepositTokenB)
    /\ pc' = "returned"
    /\ \E v \in PositionValues : out' = TokenBLocals(Num(v))

Next ==
    \/ ClaimFeesUsd
    \/ DepositUsd
    \/ WithdrawalUsd
    \/ ThrowNoDepositsUsd
    \/ ReturnUsd
    \/ ClaimFeesTokenB
    \/ DepositTokenB
    \/ WithdrawalTokenB
    \/ ThrowNoDepositsTokenB
    \/ ReturnTokenB

Spec == Init /\ [][Next]_vars

\* the values the locals of a reconstructor have while it is not in its loop
FoldIdle ==
    /\ nEvents = 0
    /\ event_type = "none"
    /\ tokenXDecimals = 0
    /\ tokenYDecimals = 0
    /\ currentTokenBPriceUsd = Num(0)
    /\ cumulativeClaimedX = Num(0)
    /\ cumulativeClaimedY = Num(0)
    /\ availableClaimedX = Num(0)
    /\ availableClaimedY = Num(0)
    /\ capitalDepositsUsd = Num(0)
    /\ totalDepositUsd = Num(0)
    /\ totalFeeRewardUsd = Num(0)
    /\ totalWithdrawalUsd = Num(0)
    /\ capitalDepositsTokenB = Num(0)
    /\ totalDepositTokenB = Num(0)
    /\ totalFeeRewardTokenB = Num(0)
    /\ totalWithdrawalTokenB = Num(0)
    /\ deposit = NoLocals
    /\ out = NoLocals

(***************************************************************************)
(* The prologue of the two functions: the three endpoints of the indexer   *)
(* are fetched one after the other and their records are combined and      *)
(* sorted.  An endpoint lists the events of the position that have its     *)
(* type, in an order the program does not control.  A behaviour is a       *)
(* number of calls for the same position while the indexer holds the same  *)
(* events.                                                                 *)
(***************************************************************************)
\* most events the indexer holds for the position, and most calls
MaxIndexed == 3
MaxCalls == 2

\* the block times of the events
Timestamps == {1, 2}

\* the events the indexer can hold: one per transaction
IndexedEvents ==
    UNION {{[i \in 1..n |-> [tx_id |-> i, event_type |-> f[i][1],
                             onchain_timestamp |-> f[i][2]]] :
               f \in [1..n -> EventTypes \X Timestamps]} : n \in 0..MaxIndexed}

Range(f) == {f[i] : i \in DOMAIN f}

\* the lists an endpoint can answer with when the indexer holds the events S
\* of its type
Responses(S) ==
    {r \in [1..Cardinality(S) -> S] : Range(r) = S}

\* (a, b) => a.onchain_timestamp - b.onchain_timestamp
compareFn(a, b) == a.onchain_timestamp - b.onchain_timestamp

\* Array.prototype.sort: a stable sort (ECMAScript 2019), here by insertion;
\* an element goes behind every element that does not compare greater
RECURSIVE Insert(_, _)
Insert(sorted, evt) ==
    IF sorted = <<>> THEN <<evt>>
    ELSE IF compareFn(sorted[Len(sorted)], evt) <= 0 THEN Append(sorted, evt)
    ELSE Append(Insert(SubSeq(sorted, 1, Len(sorted) - 1), evt),
                sorted[Len(sorted)])

RECURSIVE sort(_)
sort(array) ==
    IF array = <<>> THEN <<>>
    ELSE Insert(sort(SubSeq(array, 1, Len(array) - 1)), array[Len(array)])

InitSort ==
    /\ fn = "Usd"
    /\ pc = "fetchDeposits"
    /\ FoldIdle
    /\ indexed \in {Range(f) : f \in IndexedEvents}
    /\ deposits = <<>> /\ withdrawals = <<>> /\ feeClaims = <<>>
    /\ allEvents = <<>>
    /\ folded = <<>>
    /\ BatchIdle
    /\ KrystalIdle
    /\ RestIdle

\* the variables the prologue leaves alone
SortFrame ==
    UNCHANGED <<params, nEvents, event_type, claimed, accUsd, accTokenB, deposit,
                out, indexed, batchVars, krystalVars,
                restVars>>

OfType(t) == {evt \in indexed : evt.event_type = t}

fetchDeposits ==
    /\ pc = "fetchDeposits"
    /\ deposits' \in Responses(OfType("Deposit"))
    /\ pc' = "fetchWithdrawals"
    /\ UNCHANGED <<withdrawals, feeClaims, allEvents, folded>>
    /\ SortFrame

fetchWithdrawals ==
    /\ pc = "fetchWithdrawals"
    /\ withdrawals' \in Responses(OfType("Withdrawal"))
    /\ pc' = "fetchFeeClaims"
    /\ UNCHANGED <<deposits, feeClaims, allEvents, folded>>
    /\ SortFrame

fetchFeeClaims ==
    /\ pc = "fetchFeeClaims"
    /\ feeClaims' \in Responses(OfType("Claim Fees"))
    /\ pc' = "sort"
    /\ UNCHANGED <<deposits, withdrawals, allEvents, folded>>
    /\ SortFrame

\* [...deposits, ...withdrawals, ...feeClaims].sort(...); the loop then folds
\* allEvents in this order
CombineAndSort ==
    /\ pc = "sort"
    /\ allEvents' = sort(deposits \o withdrawals \o feeClaims)
    /\ folded' = Append(folded, allEvents')
    /\ pc' = "loop"
    /\ UNCHANGED <<deposits, withdrawals, feeClaims>>
    /\ SortFrame

\* the function is called again for the position
CallAgain ==
    /\ pc = "loop"
    /\ Len(folded) < MaxCalls
    /\ pc' = "fetchDeposits"
    /\ deposits' = <<>> /\ withdrawals' = <<>> /\ feeClaims' = <<>>
    /\ allEvents' = <<>>
    /\ UNCHANGED folded
    /\ SortFrame

NextSort ==
    \/ fetchDeposits
    \/ fetchWithdrawals
    \/ fetchFeeClaims
    \/ CombineAndSort
    \/ CallAgain

SpecSort == InitSort /\ [][NextSort]_vars

(***************************************************************************)
(* processPnlForPositions (pnlResultsService.ts): for every position the   *)
(* USD reconstructor and then the TokenB reconstructor are awaited inside  *)
(* one try block; the catch block reports the position and the loop goes   *)
(* on.  The calls run the loops modelled above, on at most MaxBatchEvents  *)
(* events each; a record of results is modelled by the index of its        *)
(* position.                                                               *)
(***************************************************************************)
MaxPositions == 2
MaxBatchEvents == 2

InitBatch ==
    /\ fn = "none"
    /\ pc = "for"
    /\ FoldIdle
    /\ SortIdle
    /\ KrystalIdle
    /\ positions \in 1..MaxPositions
    /\ pos = 0
    /\ results = <<>>
    /\ errors = <<>>
    /\ RestIdle

\* EnterLoop with the accumulators declared outside the function, where they
\* are initialised once
EnterLoopSharedAccumulators ==
    /\ pc' = "loop"
    /\ nEvents' = 0
    /\ event_type' = "none"
    /\ deposit' = NoLocals
    /\ out' = NoLocals
    /\ UNCHANGED <<claimed, accUsd, accTokenB>>

\* the locals of a reconstructor at the top of its loop: every let is
\* initialised to 0
EnterLoop ==
    /\ pc' = "loop"
    /\ nEvents' = 0
    /\ event_type' = "none"
    /\ cumulativeClaimedX' = Num(0)
    /\ cumulativeClaimedY' = Num(0)
    /\ availableClaimedX' = Num(0)
    /\ availableClaimedY' = Num(0)
    /\ capitalDepositsUsd' = Num(0)
    /\ totalDepositUsd' = Num(0)
    /\ totalFeeRewardUsd' = Num(0)
    /\ totalWithdrawalUsd' = Num(0)
    /\ capitalDepositsTokenB' = Num(0)
    /\ totalDepositTokenB' = Num(0)
    /\ totalFeeRewardTokenB' = Num(0)
    /\ totalWithdrawalTokenB' = Num(0)
    /\ deposit' = NoLocals
    /\ out' = NoLocals

\* the next iteration: await calculateMeteoraPositionPNLUsd(...)
CallUsd ==
    /\ pc = "for"
    /\ pos < positions
    /\ pos' = pos + 1
    /\ fn' = "Usd"
    /\ \E m \in TokenMetadata : tokenXDecimals' = m[1] /\ tokenYDecimals' = m[2]
    /\ currentTokenBPriceUsd' = Num(0)
    /\ EnterLoop
    /\ UNCHANGED <<positions, results, errors, sortVars, krystalVars,
                  restVars>>

\* a call that throws before its loop: a request of the prologue is rejected
FetchThrows ==
    /\ pc = "loop"
    /\ nEvents = 0
    /\ pos > 0
    /\ pc' = "thrown"
    /\ UNCHANGED <<params, nEvents, event_type, claimed, accUsd, accTokenB,
                   deposit, out, others>>

\* the USD call returned: await calculateMeteoraPositionPNLTokenB(...)
CallTokenB ==
    /\ pc = "returned"
    /\ fn = "Usd"
    /\ pos > 0
    /\ fn' = "TokenB"
    /\ currentTokenBPriceUsd' \in {Num(v) : v \in TokenBPrices}
    /\ EnterLoop
    /\ UNCHANGED <<tokenXDecimals, tokenYDecimals, others>>

\* the catch block with a record of defaults pushed for the position
CatchPushesRecord ==
    /\ pc = "thrown"
    /\ pos > 0
    /\ errors' = Append(errors, pos)
    /\ results' = Append(results, pos)
    /\ pc' = "for"
    /\ UNCHANGED <<params, nEvents, event_type, claimed, accUsd, accTokenB,
                   deposit, out, positions, pos, sortVars, krystalVars,
                   restVars>>

\* catch (err) { console.error(...) }
Catch ==
    /\ pc = "thrown"
    /\ pos > 0
    /\ errors' = Append(errors, pos)
    /\ pc' = "for"
    /\ UNCHANGED <<params, nEvents, event_type, claimed, accUsd, accTokenB,
                   deposit, out, positions, pos, results, sortVars, krystalVars,
                   restVars>>

\* both calls returned: results.push({...})
PushResult ==
    /\ pc = "returned"
    /\ fn = "TokenB"
    /\ pos > 0
    /\ results' = Append(results, pos)
    /\ pc' = "for"
    /\ UNCHANGED <<params, nEvents, event_type, claimed, accUsd, accTokenB,
                   deposit, out, positions, pos, errors, sortVars, krystalVars,
                   restVars>>

\* return results
ReturnResults ==
    /\ pc = "for"
    /\ pos = positions
    /\ pc' = "done"
    /\ UNCHANGED <<params, nEvents, event_type, claimed, accUsd, accTokenB,
                   deposit, out, others>>

\* a call folds at most MaxBatchEvents events
InBatch == nEvents < MaxBatchEvents

NextBatch ==
    \/ CallUsd
    \/ FetchThrows
    \/ InBatch /\ ClaimFeesUsd
    \/ InBatch /\ DepositUsd
    \/ InBatch /\ WithdrawalUsd
    \/ ThrowNoDepositsUsd
    \/ ReturnUsd
    \/ CallTokenB
    \/ InBatch /\ ClaimFeesTokenB
    \/ InBatch /\ DepositTokenB
    \/ InBatch /\ WithdrawalTokenB
    \/ ThrowNoDepositsTokenB
    \/ ReturnTokenB
    \/ Catch
    \/ PushResult
    \/ ReturnResults

SpecBatch == InitBatch /\ [][NextBatch]_vars

(***************************************************************************)
(* Krystal PnL (python/krystal_pnl), as krystal-pnl-algo.md and the        *)
(* specification describe it.  Python floats are the numbers above;        *)
(* a missing value of a CSV column is NaN.  The square root is exact: the  *)
(* inputs are chosen so that every root taken is rational.                 *)
(***************************************************************************)
\* the natural r with r * r = n
ISqrt(n) == CHOOSE r \in 0..n : r * r = n

\* sqrt(a) for a finite a >= 0 that is the square of a rational
Sqrt(a) == Fin(ISqrt(a.n), ISqrt(a.d))

\* pd.isna(v) or v <= 0
MissingOrNonPositive(v) == IsNaN(v) \/ Le(v, Num(0))

InvalidRangeError == [k |-> "InvalidRangeError", n |-> 0, d |-> 1]

\* compute_L that returns the other root of the quadratic
compute_L_OtherRoot(x0, y0, p_min, p_max) ==
    LET alpha == Sqrt(p_min)
        beta == Div(Num(1), Sqrt(p_max))
        A == Sub(Mul(alpha, beta), Num(1))
        B == Add(Mul(x0, alpha), Mul(y0, beta))
        C == Mul(x0, y0)
        disc == Sub(Mul(B, B), Mul(Num(4), Mul(A, C)))
    IN  Div(Add(Neg(B), Sqrt(disc)), Mul(Num(2), A))

\* compute_L(x0, y0, p_min, p_max): the positive root of A L^2 + B L + C = 0
compute_L(x0, y0, p_min, p_max) ==
    LET alpha == Sqrt(p_min)
        beta == Div(Num(1), Sqrt(p_max))
        A == Sub(Mul(alpha, beta), Num(1))
        B == Add(Mul(x0, alpha), Mul(y0, beta))
        C == Mul(x0, y0)
        disc == Sub(Mul(B, B), Mul(Num(4), Mul(A, C)))
        L1 == Div(Add(Neg(B), Sqrt(disc)), Mul(Num(2), A))
        L2 == Div(Sub(Neg(B), Sqrt(disc)), Mul(Num(2), A))
    IN  IF StrictEq(A, Num(0))
        THEN (IF StrictEq(B, Num(0)) THEN InvalidRangeError ELSE Div(Neg(C), B))
        ELSE IF Gt(L1, Num(0)) THEN L1
        ELSE IF Gt(L2, Num(0)) THEN L2
        ELSE InvalidRangeError

\* the amounts of token A and token B a position of liquidity L holds at the
\* price p inside its range
CurveAmounts(p, L, p_min, p_max) ==
    [x |-> Mul(L, Sub(Div(Num(1), Sqrt(p)), Div(Num(1), Sqrt(p_max)))),
     y |-> Mul(L, Sub(Sqrt(p), Sqrt(p_min)))]

\* solve_v3_withdrawals(W, Pa, Pb, p, L, p_min, p_max): the amounts of the
\* curve at p, scaled to the value W
solve_v3_withdrawals(W, Pa, Pb, p, L, p_min, p_max) ==
    LET q == CurveAmounts(p, L, p_min, p_max)
        value == Add(Mul(q.x, Pa), Mul(q.y, Pb))
        scale == Div(W, value)
    IN  [x |-> Mul(q.x, scale), y |-> Mul(q.y, scale)]

(***************************************************************************)
(* Closed positions: one iteration of the loop over closed_raw per step,   *)
(* then the aggregation of detail_rows.                                    *)
(***************************************************************************)
\* most rows of closed_raw
MaxClosedRows == 2

\* the symbols of a row and its closing prices: P_close inside the range
\* (twice), at its upper end and at its lower end
RowSymbols == {<<"ETH", "USDC">>, <<"LUNA", "USDC">>, <<"ETH", "LUNA">>}
ClosePrices == {<<Num(1), Num(1)>>, <<Num(9), Num(4)>>, <<Num(4), Num(1)>>,
                <<Num(1), Num(4)>>}

\* the rows with usable values that closed_raw can have at the index i; pA0
\* and pB0 are what get_open_price finds at the opening time
GoodRows(i) ==
    {[index |-> i, tokenA_symbol |-> sy[1], tokenB_symbol |-> sy[2],
      pA0 |-> Num(1), pB0 |-> Num(1), pA1 |-> p1[1], pB1 |-> p1[2],
      totalDepositValue |-> Num(4), totalWithdrawValue |-> Num(6),
      minPrice |-> Fin(1, 4), maxPrice |-> Num(4)] :
        sy \in RowSymbols, p1 \in ClosePrices}

\* a column with a value that is missing (NaN), zero or negative, or a range
\* that is empty or reversed
BadColumns ==
    {<<"pA0", NaN>>, <<"pA0", Num(0)>>, <<"pB0", Num(-1)>>,
     <<"pA1", Num(0)>>, <<"pB1", NaN>>, <<"pB1", Num(-1)>>,
     <<"totalDepositValue", Num(0)>>, <<"totalDepositValue", NaN>>,
     <<"totalWithdrawValue", Num(-1)>>, <<"totalWithdrawValue", Num(0)>>,
     <<"minPrice", Num(4)>>, <<"minPrice", Num(9)>>}

\* the rows closed_raw can have at the index i
ClosedRows(i) ==
    GoodRows(i) \cup
        {[g EXCEPT ![b[1]] = b[2]] : g \in GoodRows(i), b \in BadColumns}

InitClosed ==
    /\ fn = "none"
    /\ pc = "closed"
    /\ FoldIdle
    /\ SortIdle
    /\ BatchIdle
    /\ SKIP_SYMBOLS \in {{}, {"LUNA"}}
    /\ row = [index |-> 0]
    /\ detail_rows = <<>>
    /\ closed_agg = NoLocals
    /\ open_rows = <<>>
    /\ call = NoLocals
    /\ ret = NoLocals
    /\ RestIdle

\* SkipClosed with > written for >= in the check of the range
SkipClosedStrictRange(r) ==
    \/ r.tokenA_symbol \in SKIP_SYMBOLS
    \/ r.tokenB_symbol \in SKIP_SYMBOLS
    \/ \E v \in {r.pA0, r.pB0, r.pA1, r.pB1, r.totalDepositValue,
                  r.totalWithdrawValue} : MissingOrNonPositive(v)
    \/ Gt(r.minPrice, r.maxPrice)

\* the two checks that make the loop continue with the next row
SkipClosed(r) ==
    \/ r.tokenA_symbol \in SKIP_SYMBOLS
    \/ r.tokenB_symbol \in SKIP_SYMBOLS
    \/ \E v \in {r.pA0, r.pB0, r.pA1, r.pB1, r.totalDepositValue,
                  r.totalWithdrawValue} : MissingOrNonPositive(v)
    \/ ~Lt(r.minPrice, r.maxPrice)

\* WithdrawalQuantities with the two single-asset regimes exchanged
WithdrawalQuantitiesExchanged(W, pA1, pB1, L, minPrice, maxPrice) ==
    LET P_close == Div(pA1, pB1)
    IN  IF Le(P_close, minPrice) THEN [x |-> Num(0), y |-> Div(W, pB1)]
        ELSE IF Le(maxPrice, P_close) THEN [x |-> Div(W, pA1), y |-> Num(0)]
        ELSE solve_v3_withdrawals(W, pA1, pB1, P_close, L, minPrice, maxPrice)

\* the withdrawal quantities (QA1, QB1) by the place of P_close
WithdrawalQuantities(W, pA1, pB1, L, minPrice, maxPrice) ==
    LET P_close == Div(pA1, pB1)
    IN  IF Le(P_close, minPrice) THEN [x |-> Div(W, pA1), y |-> Num(0)]
        ELSE IF Le(maxPrice, P_close) THEN [x |-> Num(0), y |-> Div(W, pB1)]
        ELSE solve_v3_withdrawals(W, pA1, pB1, P_close, L, minPrice, maxPrice)

\* the detail row of a row that is not skipped
DetailRow(r) ==
    LET QA0 == Div(Div(r.totalDepositValue, Num(2)), r.pA0)
        QB0 == Div(Div(r.totalDepositValue, Num(2)), r.pB0)
        L == compute_L(QA0, QB0, r.minPrice, r.maxPrice)
        Q1 == WithdrawalQuantities(r.totalWithdrawValue, r.pA1, r.pB1, L,
                                   r.minPrice, r.maxPrice)
        val0 == Add(Mul(QA0, Div(r.pA0, r.pB0)), QB0)
        val1 == Add(Mul(Q1.x, Div(r.pA1, r.pB1)), Q1.y)
    IN  [row |-> r, QA0 |-> QA0, QB0 |-> QB0, L |-> L,
         QA1 |-> Q1.x, QB1 |-> Q1.y,
         pnl_usd |-> Sub(r.totalWithdrawValue, r.totalDepositValue),
         pnl_tokenB |-> Sub(val1, val0)]

\* the variables the loop over closed_raw leaves alone
ClosedFrame ==
    UNCHANGED <<params, nEvents, event_type, claimed, accUsd, accTokenB, deposit,
                out, sortVars, batchVars, restVars,
                SKIP_SYMBOLS, open_rows, call, ret>>

\* an iteration that ends at a continue
SkipClosedRow ==
    \E r \in ClosedRows(row.index + 1) :
        /\ pc = "closed"
        /\ row.index < MaxClosedRows
        /\ SkipClosed(r)
        /\ row' = r
        /\ UNCHANGED <<pc, detail_rows, closed_agg>>
        /\ ClosedFrame

\* an iteration that reaches detail_rows.append
AppendDetailRow ==
    \E r \in ClosedRows(row.index + 1) :
        /\ pc = "closed"
        /\ row.index < MaxClosedRows
        /\ ~SkipClosed(r)
        /\ row' = r
        /\ detail_rows' = Append(detail_rows, DetailRow(r))
        /\ UNCHANGED <<pc, closed_agg>>
        /\ ClosedFrame

RECURSIVE SumOf(_, _)
SumOf(rows, column) ==
    IF rows = <<>> THEN Num(0)
    ELSE Add(SumOf(SubSeq(rows, 1, Len(rows) - 1), column),
             rows[Len(rows)][column])

\* after the loop: the group-by sums of the detail rows
AggregateClosed ==
    /\ pc = "closed"
    /\ closed_agg' = [rows |-> Len(detail_rows),
                      pnl_usd |-> SumOf(detail_rows, "pnl_usd"),
                      pnl_tokenB |-> SumOf(detail_rows, "pnl_tokenB")]
    /\ pc' = "aggregated"
    /\ UNCHANGED <<row, detail_rows>>
    /\ ClosedFrame

NextClosed ==
    \/ SkipClosedRow
    \/ AppendDetailRow
    \/ AggregateClosed

SpecClosed == InitClosed /\ [][NextClosed]_vars

(***************************************************************************)
(* The two liquidity-math functions applied one after the other: compute_L *)
(* on a deposit, solve_v3_withdrawals on the full value of the position at *)
(* a price inside the range, and compute_L on the quantities returned.     *)
(***************************************************************************)
\* ranges, and prices with a rational square root
Ranges == {<<Fin(1, 4), Num(4)>>, <<Num(1), Num(4)>>, <<Num(1), Num(9)>>,
           <<Fin(1, 4), Num(1)>>}
Prices == {Fin(1, 4), Num(1), Fin(9, 4), Num(4), Num(9)}
TokenPrices == {<<Num(1), Num(1)>>, <<Num(9), Num(4)>>, <<Num(4), Num(1)>>,
                <<Num(1), Num(4)>>, <<Num(2), Num(2)>>}
Liquidities == {Num(1), Num(2), Num(3)}

\* the calls: a deposit (x0, y0) whose liquidity in the range is rational (the
\* amounts of some liquidity l at some price p0 of the range, its ends
\* included), and token prices Pa, Pb whose ratio is inside the range
LiquidityCalls ==
    {[x0 |-> CurveAmounts(p0, l, rg[1], rg[2]).x,
      y0 |-> CurveAmounts(p0, l, rg[1], rg[2]).y,
      p_min |-> rg[1], p_max |-> rg[2], Pa |-> tp[1], Pb |-> tp[2]] :
        <<rg, p0, l, tp>> \in
            {c \in Ranges \X Prices \X Liquidities \X TokenPrices :
                /\ Le(c[1][1], c[2]) /\ Le(c[2], c[1][2])
                /\ Lt(c[1][1], Div(c[4][1], c[4][2]))
                /\ Lt(Div(c[4][1], c[4][2]), c[1][2])}}

InitLiquidity ==
    /\ fn = "none"
    /\ pc = "compute_L"
    /\ FoldIdle
    /\ SortIdle
    /\ BatchIdle
    /\ SKIP_SYMBOLS = {}
    /\ row = NoLocals
    /\ detail_rows = <<>>
    /\ closed_agg = NoLocals
    /\ open_rows = <<>>
    /\ call \in LiquidityCalls
    /\ ret = NoLocals
    /\ RestIdle

\* the variables the liquidity-math functions leave alone
LiquidityFrame ==
    UNCHANGED <<params, nEvents, event_type, claimed, accUsd, accTokenB, deposit,
                out, sortVars, batchVars, restVars,
                SKIP_SYMBOLS, row, detail_rows,
                closed_agg, open_rows, call>>

\* L = compute_L(x0, y0, p_min, p_max)
ComputeLiquidity ==
    /\ pc = "compute_L"
    /\ ret' = [L |-> compute_L(call.x0, call.y0, call.p_min, call.p_max)]
    /\ pc' = "solve_v3_withdrawals"
    /\ LiquidityFrame

\* the full value of the position at the price p = Pa / Pb is decomposed
DecomposeFullValue ==
    /\ pc = "solve_v3_withdrawals"
    /\ LET p == Div(call.Pa, call.Pb)
           held == CurveAmounts(p, ret.L, call.p_min, call.p_max)
           W == Add(Mul(held.x, call.Pa), Mul(held.y, call.Pb))
           q == solve_v3_withdrawals(W, call.Pa, call.Pb, p, ret.L, call.p_min,
                                     call.p_max)
       IN  ret' = [L |-> ret.L, W |-> W, x |-> q.x, y |-> q.y]
    /\ pc' = "recompute_L"
    /\ LiquidityFrame

\* L is computed again, from the quantities returned and the same range
RecomputeLiquidity ==
    /\ pc = "recompute_L"
    /\ ret' = [L |-> ret.L, W |-> ret.W, x |-> ret.x, y |-> ret.y,
               L_again |-> compute_L(ret.x, ret.y, call.p_min, call.p_max)]
    /\ pc' = "done"
    /\ LiquidityFrame

NextLiquidity ==
    \/ ComputeLiquidity
    \/ DecomposeFullValue
    \/ RecomputeLiquidity

SpecLiquidity == InitLiquidity /\ [][NextLiquidity]_vars

(***************************************************************************)
(* Open positions: one iteration of the loop over open_raw per step.  A    *)
(* division by a quantity of 0 is guarded, as the error-handling rules     *)
(* require: the inferred price is then not a positive finite number and    *)
(* the row is skipped.                                                     *)
(***************************************************************************)
\* most rows of open_raw
MaxOpenRows == 2

\* current prices, provided and current quantities and fees of usable rows
CurrentPrices == {<<Num(2), Num(1)>>, <<Num(1), Num(1)>>}
ProvidedA == {Num(1), Num(2)}
CurrentA == {Num(0), Num(1)}
PendingA == {Num(0), Num(1)}

\* the rows with usable values that open_raw can have at the index i
GoodOpenRows(i) ==
    {[index |-> i, pA1 |-> p1[1], pB1 |-> p1[2],
      tokenA_provided |-> qa0, tokenB_provided |-> Num(2),
      tokenA_current |-> qa1, tokenB_current |-> Num(3),
      tokenA_feePending |-> fa, tokenA_feesClaimed |-> Num(1),
      tokenB_feePending |-> Num(1), tokenB_feesClaimed |-> Num(0),
      initialUnderlyingValue |-> Num(4), currentUnderlyingValue |-> Num(5)] :
        p1 \in CurrentPrices, qa0 \in ProvidedA, qa1 \in CurrentA,
        fa \in PendingA}

\* a column with a price that is missing or not positive, a quantity that is
\* negative or 0, or an initial value that is not positive
BadOpenColumns ==
    {<<"pA1", NaN>>, <<"pB1", Num(0)>>, <<"pA1", Num(-1)>>,
     <<"tokenA_provided", Num(-1)>>, <<"tokenB_provided", Num(-1)>>,
     <<"tokenA_current", Num(-1)>>, <<"tokenB_current", Num(-1)>>,
     <<"tokenA_provided", Num(0)>>, <<"tokenB_provided", Num(0)>>,
     <<"initialUnderlyingValue", Num(0)>>, <<"initialUnderlyingValue", Num(-4)>>}

\* the rows open_raw can have at the index i
OpenRows(i) ==
    GoodOpenRows(i) \cup
        {[g EXCEPT ![b[1]] = b[2]] : g \in GoodOpenRows(i), b \in BadOpenColumns}

InitOpen ==
    /\ fn = "none"
    /\ pc = "open"
    /\ FoldIdle
    /\ SortIdle
    /\ BatchIdle
    /\ SKIP_SYMBOLS = {}
    /\ row = [index |-> 0]
    /\ detail_rows = <<>>
    /\ closed_agg = NoLocals
    /\ open_rows = <<>>
    /\ call = NoLocals
    /\ ret = NoLocals
    /\ RestIdle

\* the entry price inferred for a token: (initialUnderlyingValue / 2) / Q0
InferredPrice(r, Q0) == Div(Div(r.initialUnderlyingValue, Num(2)), Q0)

\* SkipOpen with the inferred prices only compared with 0
SkipOpenUnguarded(r) ==
    \/ \E v \in {r.pA1, r.pB1} : MissingOrNonPositive(v)
    \/ \E q \in {r.tokenA_provided, r.tokenB_provided, r.tokenA_current,
                  r.tokenB_current} : Lt(q, Num(0))
    \/ \E p0 \in {InferredPrice(r, r.tokenA_provided),
                   InferredPrice(r, r.tokenB_provided)} : Le(p0, Num(0))

\* the three checks that make the loop continue with the next row
SkipOpen(r) ==
    \/ \E v \in {r.pA1, r.pB1} : MissingOrNonPositive(v)
    \/ \E q \in {r.tokenA_provided, r.tokenB_provided, r.tokenA_current,
                  r.tokenB_current} : Lt(q, Num(0))
    \/ \E p0 \in {InferredPrice(r, r.tokenA_provided),
                   InferredPrice(r, r.tokenB_provided)} :
           ~(IsFinite(p0) /\ Gt(p0, Num(0)))

\* the row of open_rows of a row that is not skipped
OpenRow(r) ==
    LET QA0 == r.tokenA_provided
        QB0 == r.tokenB_provided
        QA1 == r.tokenA_current
        QB1 == r.tokenB_current
        feeA == Add(r.tokenA_feePending, r.tokenA_feesClaimed)
        feeB == Add(r.tokenB_feePending, r.tokenB_feesClaimed)
        pA0 == InferredPrice(r, QA0)
        pB0 == InferredPrice(r, QB0)
        val0 == Add(Mul(QA0, Div(pA0, pB0)), QB0)
        val1 == Add(Add(Add(Mul(QA1, Div(r.pA1, r.pB1)), QB1),
                        Mul(feeA, Div(r.pA1, r.pB1))), feeB)
    IN  [row |-> r, pA0 |-> pA0, pB0 |-> pB0,
         pnl_usd |-> Sub(Add(Add(r.currentUnderlyingValue, Mul(feeA, r.pA1)),
                             Mul(feeB, r.pB1)),
                         r.initialUnderlyingValue),
         pnl_tokenB |-> Sub(val1, val0),
         lp_current_value |-> r.currentUnderlyingValue]

\* the variables the loop over open_raw leaves alone
OpenFrame ==
    UNCHANGED <<params, pc, nEvents, event_type, claimed, accUsd, accTokenB,
                deposit, out, sortVars, batchVars, restVars,
                SKIP_SYMBOLS, detail_rows,
                closed_agg, call, ret>>

\* an iteration that ends at a continue
SkipOpenRow ==
    \E r \in OpenRows(row.index + 1) :
        /\ pc = "open"
        /\ row.index < MaxOpenRows
        /\ SkipOpen(r)
        /\ row' = r
        /\ UNCHANGED open_rows
        /\ OpenFrame

\* an iteration that reaches open_rows.append
AppendOpenRow ==
    \E r \in OpenRows(row.index + 1) :
        /\ pc = "open"
        /\ row.index < MaxOpenRows
        /\ ~SkipOpen(r)
        /\ row' = r
        /\ open_rows' = Append(open_rows, OpenRow(r))
        /\ OpenFrame

NextOpen ==
    \/ SkipOpenRow
    \/ AppendOpenRow

SpecOpen == InitOpen /\ [][NextOpen]_vars

(***************************************************************************)
(* One iteration of processPnlForPositions seen from the indexer: the USD  *)
(* reconstructor runs its prologue, then the TokenB reconstructor runs its *)
(* own, while the indexer may record a new event of the position at any    *)
(* time.                                                                   *)
(***************************************************************************)
InitSnapshot ==
    /\ fn = "Usd"
    /\ pc = "fetchDeposits"
    /\ FoldIdle
    /\ indexed \in {Range(f) : f \in IndexedEvents}
    /\ deposits = <<>> /\ withdrawals = <<>> /\ feeClaims = <<>>
    /\ allEvents = <<>>
    /\ folded = <<>>
    /\ BatchIdle
    /\ KrystalIdle
    /\ RestIdle

\* the USD reconstructor has returned and calculateMeteoraPositionPNLTokenB is
\* called for the same position
CallTokenBReconstructor ==
    /\ fn = "Usd"
    /\ pc = "loop"
    /\ fn' = "TokenB"
    /\ pc' = "fetchDeposits"
    /\ deposits' = <<>> /\ withdrawals' = <<>> /\ feeClaims' = <<>>
    /\ allEvents' = <<>>
    /\ UNCHANGED <<tokenXDecimals, tokenYDecimals, currentTokenBPriceUsd, nEvents, event_type, claimed, accUsd,
                   accTokenB, deposit, out, indexed, folded, batchVars,
                   krystalVars, restVars>>

\* a transaction of the position is indexed while the iteration runs; its
\* block time is not before that of an event already indexed
IndexerRecordsEvent ==
    \E t \in EventTypes, ts \in Timestamps :
        /\ pc # "loop" \/ fn = "Usd"
        /\ Cardinality(indexed) < MaxIndexed
        /\ \A evt \in indexed : evt.onchain_timestamp <= ts
        /\ indexed' = indexed \cup
               {[tx_id |-> Cardinality(indexed) + 1, event_type |-> t,
                 onchain_timestamp |-> ts]}
        /\ UNCHANGED <<params, pc, nEvents, event_type, claimed, accUsd,
                       accTokenB, deposit, out, deposits, withdrawals,
                       feeClaims, allEvents, folded, batchVars, krystalVars,
                       restVars>>

NextSnapshot ==
    \/ fetchDeposits
    \/ fetchWithdrawals
    \/ fetchFeeClaims
    \/ CombineAndSort
    \/ CallTokenBReconstructor
    \/ IndexerRecordsEvent

SpecSnapshot == InitSnapshot /\ [][NextSnapshot]_vars

(***************************************************************************)
(* Merging: open_agg is merged with the selected columns of closed_agg on  *)
(* chainName, poolAddress and userAddress by a left join, and the missing  *)
(* closed PnL values are filled with 0.                                    *)
(***************************************************************************)
\* the keys (chainName, poolAddress, userAddress) of the aggregates
MergeKeys == {<<"ethereum", "pool1", "user1">>, <<"ethereum", "pool2", "user1">>,
              <<"base", "pool1", "user2">>}

\* the PnL sums (USD, token B) a group can have
GroupPnls == {<<Num(-1), Num(1)>>, <<Num(2), Num(-2)>>}

\* the results of a groupby: at most one row for a key
Aggregates ==
    {{[key |-> k, pnl_usd |-> f[k][1], pnl_tokenB |-> f[k][2]] : k \in K} :
        f \in [MergeKeys -> GroupPnls], K \in SUBSET MergeKeys}

InitMerge ==
    /\ fn = "none"
    /\ pc = "merge"
    /\ FoldIdle
    /\ SortIdle
    /\ BatchIdle
    /\ SKIP_SYMBOLS = {}
    /\ row = NoLocals
    /\ detail_rows = <<>>
    /\ closed_agg \in Aggregates
    /\ open_rows = <<>>
    /\ call = NoLocals
    /\ ret = NoLocals
    /\ open_agg \in Aggregates
    /\ final_df = {}
    /\ TrackIdle
    /\ MainIdle
    /\ RetryIdle

\* a row of the merged table: the row o of open_agg with the closed PnL
\* (usd, tokenB) next to it
MergedRow(o, usd, tokenB) ==
    [key |-> o.key,
     pnl_usd_open |-> o.pnl_usd, pnl_tokenB_open |-> o.pnl_tokenB,
     pnl_usd_closed |-> usd, pnl_tokenB_closed |-> tokenB,
     lp_pnl_usd |-> Add(o.pnl_usd, usd),
     lp_pnl_tokenB |-> Add(o.pnl_tokenB, tokenB)]

\* merge(how = left) and fillna(0): a row for every match of a row of
\* open_agg, and one with 0 for a row of open_agg without a match
MergeLeft(left, right) ==
    {MergedRow(o, c.pnl_usd, c.pnl_tokenB) :
        <<o, c>> \in {oc \in left \X right : oc[1].key = oc[2].key}}
    \cup {MergedRow(o, Num(0), Num(0)) :
            o \in {l \in left : \A c \in right : c.key # l.key}}

Merge ==
    /\ pc = "merge"
    /\ final_df' = MergeLeft(open_agg, closed_agg)
    /\ pc' = "merged"
    /\ UNCHANGED <<params, nEvents, event_type, claimed, accUsd, accTokenB,
                   deposit, out, sortVars, batchVars, krystalVars, open_agg,
                   trackVars, mainVars, retryVars>>

NextMerge ==
    \/ Merge

SpecMerge == InitMerge /\ [][NextMerge]_vars

(***************************************************************************)
(* Position tracking.  The stores are the files open_positions.csv and     *)
(* closed_positions.csv, modelled by the keys of the maps that the load    *)
(* functions return.  main() awaits one wallet after the other, so the     *)
(* calls do not interleave.                                                *)
(***************************************************************************)
\* the monitored Solana wallets and the positions each of them can hold
SolanaWallets == {"wallet1", "wallet2"}

PositionKeys == {"pos1", "pos2", "pos3"}

Owner == [k \in PositionKeys |-> IF k = "pos3" THEN "wallet2" ELSE "wallet1"]

\* the positions the wallet w holds on-chain
Held(w) == {k \in PositionKeys : Owner[k] = w /\ onchain[k] = "held"}

InitTrack ==
    /\ fn = "none"
    /\ pc = "track"
    /\ FoldIdle
    /\ SortIdle
    /\ BatchIdle
    /\ KrystalIdle
    /\ MergeIdle
    /\ onchain = [k \in PositionKeys |-> "none"]
    /\ openPositions = {}
    /\ closedPositions = {}
    /\ op = NoLocals
    /\ MainIdle
    /\ RetryIdle

\* closePosition without its early return
closePositionUnguarded(stores, positionKey) ==
    [open |-> stores.open \ {positionKey},
     closed |-> stores.closed \cup {positionKey}]

\* the stores after closePosition(positionKey, exitTime, exitValueUsd)
closePosition(stores, positionKey) ==
    IF positionKey \notin stores.open
    THEN stores
    ELSE [open |-> stores.open \ {positionKey},
          closed |-> stores.closed \cup {positionKey}]

\* the stores after closePosition was called for every key of the set keys
RECURSIVE closeEach(_, _)
closeEach(stores, keys) ==
    IF keys = {} THEN stores
    ELSE LET k == CHOOSE k \in keys : TRUE
         IN  closeEach(closePosition(stores, k), keys \ {k})

\* the stores after updatePositionTracking(positionInfos), withDeposits being the
\* positions for which fetchDeposits returns a deposit.  Both loops read the
\* maps that were loaded when the function was entered.
updatePositionTracking(stores, positionInfos, withDeposits) ==
    LET new == {k \in positionInfos :
                   /\ k \notin stores.open /\ k \notin stores.closed
                   /\ k \in withDeposits}
        saved == [open |-> stores.open \cup new, closed |-> stores.closed]
        gone == {positionKey \in stores.open : positionKey \notin positionInfos}
    IN  closeEach(saved, gone)

\* the variables the tracking leaves alone
TrackFrame ==
    UNCHANGED <<params, pc, nEvents, event_type, claimed, accUsd, accTokenB,
                deposit, out, sortVars, batchVars, krystalVars, mergeVars,
                mainVars, retryVars>>

\* a wallet creates a position on-chain
CreateOnChain ==
    \E k \in PositionKeys :
        /\ onchain[k] = "none"
        /\ onchain' = [onchain EXCEPT ![k] = "held"]
        /\ op' = [name |-> "create", key |-> k]
        /\ UNCHANGED <<openPositions, closedPositions>>
        /\ TrackFrame

\* a wallet closes a position on-chain
CloseOnChain ==
    \E k \in PositionKeys :
        /\ onchain[k] = "held"
        /\ onchain' = [onchain EXCEPT ![k] = "closed"]
        /\ op' = [name |-> "close", key |-> k]
        /\ UNCHANGED <<openPositions, closedPositions>>
        /\ TrackFrame

\* fetchMeteoraPositions(walletAddress) up to its call of
\* updatePositionTracking with the positions of that wallet
FetchMeteoraPositions ==
    \E walletAddress \in SolanaWallets :
        \E withDeposits \in SUBSET Held(walletAddress) :
            LET stores == updatePositionTracking(
                              [open |-> openPositions, closed |-> closedPositions],
                              Held(walletAddress), withDeposits)
            IN  /\ openPositions' = stores.open
                /\ closedPositions' = stores.closed
                /\ op' = [name |-> "updatePositionTracking",
                          key |-> walletAddress]
                /\ UNCHANGED onchain
                /\ TrackFrame

\* a call of the exported closePosition
ClosePosition ==
    \E positionKey \in PositionKeys :
        LET stores == closePosition(
                          [open |-> openPositions, closed |-> closedPositions],
                          positionKey)
        IN  /\ openPositions' = stores.open
            /\ closedPositions' = stores.closed
            /\ op' = [name |-> "closePosition", key |-> positionKey]
            /\ UNCHANGED onchain
            /\ TrackFrame

NextTrack ==
    \/ CreateOnChain
    \/ CloseOnChain
    \/ FetchMeteoraPositions
    \/ ClosePosition

SpecTrack == InitTrack /\ [][NextTrack]_vars

(***************************************************************************)
(* main() of the lp-monitor: the wallets of each kind are processed one    *)
(* after the other, a failing wallet sets the error flag of its kind, and  *)
(* the latest-positions file and the timestamp of the kind are written     *)
(* after the loop.  A timestamp is the number of the run that wrote it,    *)
(* 0 standing for the empty string.                                        *)
(***************************************************************************)
\* runs of main() that are followed
MaxRuns == 2

SOLANA_WALLET_ADDRESSES == <<"wallet1", "wallet2">>

EVM_WALLET_ADDRESSES == <<"evm1", "evm2">>

\* what the upstream source answers: an error, or a number of positions
Upstream ==
    {[error |-> TRUE, positions |-> 0], [error |-> FALSE, positions |-> 0],
     [error |-> FALSE, positions |-> 1]}

\* the flags readErrorFlags returns when there is no file
DefaultFlags ==
    [LP_FETCHING_KRYSTAL_ERROR |-> FALSE, LP_FETCHING_METEORA_ERROR |-> FALSE,
     last_meteora_lp_update |-> 0, last_krystal_lp_update |-> 0]

\* readErrorFlags of a file that holds the flags file
readErrorFlags(file) ==
    [LP_FETCHING_KRYSTAL_ERROR |-> file.LP_FETCHING_KRYSTAL_ERROR,
     LP_FETCHING_METEORA_ERROR |-> file.LP_FETCHING_METEORA_ERROR,
     last_meteora_lp_update |-> file.last_meteora_lp_update,
     last_krystal_lp_update |-> file.last_krystal_lp_update]

\* fetchMeteoraPositions: an error of the upstream source is caught and the
\* empty list returned
fetchMeteoraPositions(upstream) ==
    IF upstream.error THEN [threw |-> FALSE, positions |-> 0]
    ELSE [threw |-> FALSE, positions |-> upstream.positions]

\* retrieveMeteoraPositions rethrows what fetchMeteoraPositions throws
retrieveMeteoraPositions(upstream) == fetchMeteoraPositions(upstream)

\* fetchKrystalPositions rethrows the error of the request
fetchKrystalPositions(upstream) ==
    IF upstream.error THEN [threw |-> TRUE, positions |-> 0]
    ELSE [threw |-> FALSE, positions |-> upstream.positions]

\* retrieveKrystalPositions catches the error and returns the empty list
retrieveKrystalPositions(upstream) ==
    LET fetched == fetchKrystalPositions(upstream)
    IN  IF fetched.threw THEN [threw |-> FALSE, positions |-> 0] ELSE fetched

\* processSolanaWallet and processEvmWallet: the records of the wallet, or
\* the error of the retrieval or of the CSV generation rethrown
processWallet(retrieved, csvGenerated) ==
    IF retrieved.threw THEN [threw |-> TRUE, records |-> 0]
    ELSE IF retrieved.positions > 0
         THEN IF csvGenerated
              THEN [threw |-> FALSE, records |-> retrieved.positions]
              ELSE [threw |-> TRUE, records |-> 0]
         ELSE [threw |-> FALSE, records |-> 0]

InitMain ==
    /\ fn = "none"
    /\ pc = "main"
    /\ FoldIdle
    /\ SortIdle
    /\ BatchIdle
    /\ KrystalIdle
    /\ MergeIdle
    /\ TrackIdle
    /\ flagsFile = DefaultFlags
    /\ errorFlags = NoLocals
    /\ run = 1
    /\ wallet = 0
    /\ allMeteoraRecords = 0
    /\ allKrystalRecords = 0
    /\ meteoraSuccess = TRUE
    /\ krystalSuccess = TRUE
    /\ latestCsv = [meteora |-> 0, krystal |-> 0]
    /\ thrown = {}
    /\ fetchError = {}
    /\ RetryIdle

\* the variables main() leaves alone
MainFrame ==
    UNCHANGED <<params, nEvents, event_type, claimed, accUsd, accTokenB,
                deposit, out, sortVars, batchVars, krystalVars, mergeVars,
                trackVars, retryVars>>

\* let errorFlags = await readErrorFlags() and the four lets after it
StartMain ==
    /\ pc = "main"
    /\ errorFlags' = readErrorFlags(flagsFile)
    /\ pc' = "solana"
    /\ UNCHANGED <<flagsFile, run, wallet, allMeteoraRecords, allKrystalRecords,
                   meteoraSuccess, krystalSuccess, latestCsv, thrown, fetchError>>
    /\ MainFrame

\* an iteration of the loop over the Solana wallets
ProcessSolanaWallet ==
    \E upstream \in Upstream, csvGenerated \in BOOLEAN :
        LET solWallet == SOLANA_WALLET_ADDRESSES[wallet + 1]
            result == processWallet(retrieveMeteoraPositions(upstream),
                                    csvGenerated)
        IN  /\ pc = "solana"
            /\ wallet < Len(SOLANA_WALLET_ADDRESSES)
            /\ upstream.positions = 0 => csvGenerated
            /\ fetchError' = IF upstream.error
                             THEN fetchError \cup {solWallet} ELSE fetchError
            /\ IF result.threw
               THEN /\ errorFlags' =
                          [errorFlags EXCEPT !.LP_FETCHING_METEORA_ERROR = TRUE]
                    /\ meteoraSuccess' = FALSE
                    /\ flagsFile' = errorFlags'
                    /\ thrown' = thrown \cup {solWallet}
                    /\ UNCHANGED allMeteoraRecords
               ELSE /\ allMeteoraRecords' = allMeteoraRecords + result.records
                    /\ UNCHANGED <<errorFlags, meteoraSuccess, flagsFile, thrown>>
            /\ wallet' = wallet + 1
            /\ UNCHANGED <<pc, run, allKrystalRecords, krystalSuccess, latestCsv>>
            /\ MainFrame

\* WriteMeteora with the timestamp written whenever there are records
WriteMeteoraStampsAfterFailure ==
    /\ pc = "solana"
    /\ wallet = Len(SOLANA_WALLET_ADDRESSES)
    /\ latestCsv' = IF allMeteoraRecords > 0
                    THEN [latestCsv EXCEPT !.meteora = allMeteoraRecords]
                    ELSE latestCsv
    /\ IF allMeteoraRecords > 0
       THEN /\ errorFlags' = [errorFlags EXCEPT !.last_meteora_lp_update = run]
            /\ flagsFile' = errorFlags'
       ELSE UNCHANGED <<errorFlags, flagsFile>>
    /\ pc' = "evm"
    /\ wallet' = 0
    /\ UNCHANGED <<run, allMeteoraRecords, allKrystalRecords, meteoraSuccess,
                   krystalSuccess, thrown, fetchError>>
    /\ MainFrame

\* the two if statements after the loop over the Solana wallets
WriteMeteora ==
    /\ pc = "solana"
    /\ wallet = Len(SOLANA_WALLET_ADDRESSES)
    /\ latestCsv' = IF allMeteoraRecords > 0
                    THEN [latestCsv EXCEPT !.meteora = allMeteoraRecords]
                    ELSE latestCsv
    /\ IF meteoraSuccess /\ allMeteoraRecords > 0
       THEN /\ errorFlags' = [errorFlags EXCEPT !.last_meteora_lp_update = run]
            /\ flagsFile' = errorFlags'
       ELSE UNCHANGED <<errorFlags, flagsFile>>
    /\ pc' = "evm"
    /\ wallet' = 0
    /\ UNCHANGED <<run, allMeteoraRecords, allKrystalRecords, meteoraSuccess,
                   krystalSuccess, thrown, fetchError>>
    /\ MainFrame

\* an iteration of the loop over the EVM wallets
ProcessEvmWallet ==
    \E upstream \in Upstream, csvGenerated \in BOOLEAN :
        LET evmWallet == EVM_WALLET_ADDRESSES[wallet + 1]
            result == processWallet(retrieveKrystalPositions(upstream),
                                    csvGenerated)
        IN  /\ pc = "evm"
            /\ wallet < Len(EVM_WALLET_ADDRESSES)
            /\ upstream.positions = 0 => csvGenerated
            /\ fetchError' = IF upstream.error
                             THEN fetchError \cup {evmWallet} ELSE fetchError
            /\ IF result.threw
               THEN /\ errorFlags' =
                          [errorFlags EXCEPT !.LP_FETCHING_KRYSTAL_ERROR = TRUE]
                    /\ krystalSuccess' = FALSE
                    /\ flagsFile' = errorFlags'
                    /\ thrown' = thrown \cup {evmWallet}
                    /\ UNCHANGED allKrystalRecords
               ELSE /\ allKrystalRecords' = allKrystalRecords + result.records
                    /\ UNCHANGED <<errorFlags, krystalSuccess, flagsFile, thrown>>
            /\ wallet' = wallet + 1
            /\ UNCHANGED <<pc, run, allMeteoraRecords, meteoraSuccess, latestCsv>>
            /\ MainFrame

\* the two if statements after the loop over the EVM wallets
WriteKrystal ==
    /\ pc = "evm"
    /\ wallet = Len(EVM_WALLET_ADDRESSES)
    /\ latestCsv' = IF allKrystalRecords > 0
                    THEN [latestCsv EXCEPT !.krystal = allKrystalRecords]
                    ELSE latestCsv
    /\ IF krystalSuccess /\ allKrystalRecords > 0
       THEN /\ errorFlags' = [errorFlags EXCEPT !.last_krystal_lp_update = run]
            /\ flagsFile' = errorFlags'
       ELSE UNCHANGED <<errorFlags, flagsFile>>
    /\ pc' = "completed"
    /\ UNCHANGED <<run, wallet, allMeteoraRecords, allKrystalRecords,
                   meteoraSuccess, krystalSuccess, thrown, fetchError>>
    /\ MainFrame

\* main() rejects because a latest-positions file cannot be written: the
\* catch of main() sets both flags in the file and the process exits
MainCatch ==
    /\ \/ pc = "solana" /\ wallet = Len(SOLANA_WALLET_ADDRESSES)
                        /\ allMeteoraRecords > 0
       \/ pc = "evm" /\ wallet = Len(EVM_WALLET_ADDRESSES)
                     /\ allKrystalRecords > 0
    /\ flagsFile' = [readErrorFlags(flagsFile) EXCEPT
                        !.LP_FETCHING_KRYSTAL_ERROR = TRUE,
                        !.LP_FETCHING_METEORA_ERROR = TRUE]
    /\ pc' = "exited"
    /\ UNCHANGED <<errorFlags, run, wallet, allMeteoraRecords,
                   allKrystalRecords, meteoraSuccess, krystalSuccess, latestCsv,
                   thrown, fetchError>>
    /\ MainFrame

\* the workflow starts the lp-monitor again
NextRun ==
    /\ pc \in {"completed", "exited"}
    /\ run < MaxRuns
    /\ run' = run + 1
    /\ pc' = "main"
    /\ errorFlags' = NoLocals
    /\ wallet' = 0
    /\ allMeteoraRecords' = 0
    /\ allKrystalRecords' = 0
    /\ meteoraSuccess' = TRUE
    /\ krystalSuccess' = TRUE
    /\ thrown' = {}
    /\ fetchError' = {}
    /\ UNCHANGED <<flagsFile, latestCsv>>
    /\ MainFrame

NextMain ==
    \/ StartMain
    \/ ProcessSolanaWallet
    \/ WriteMeteora
    \/ ProcessEvmWallet
    \/ WriteKrystal
    \/ MainCatch
    \/ NextRun

SpecMain == InitMain /\ [][NextMain]_vars

(***************************************************************************)
(* withRetry of the Meteora adapter: every error is retried until the loop *)
(* has run `retries` times.  One action per iteration of the loop.         *)
(***************************************************************************)
\* largest value of the parameter retries (3 is its default)
MaxRetries == 3

\* what a call of fn ends with: a value, or one of the errors it throws
RpcErrors == {"TimeoutError", "FetchError", "RpcError"}

FnOutcomes ==
    {[ok |-> TRUE, value |-> "positionsData"]} \cup
        {[ok |-> FALSE, error |-> e] : e \in RpcErrors}

InitRetry ==
    /\ fn = "none"
    /\ pc = "for"
    /\ FoldIdle
    /\ SortIdle
    /\ BatchIdle
    /\ KrystalIdle
    /\ MergeIdle
    /\ TrackIdle
    /\ MainIdle
    /\ retries \in 0..MaxRetries
    /\ loop_i = 0
    /\ attempts = <<>>
    /\ lastError = NoLocals
    /\ settled = NoLocals
    /\ rateLimitCalls = 0
    /\ dateNow = 0
    /\ lastCallTimestamp = 0

\* the loop condition with <= written for <
LoopConditionInclusive(index, count) == index <= count

\* i < retries
LoopCondition(index, count) == index < count

\* the variables withRetry leaves alone
RetryFrame ==
    UNCHANGED <<params, nEvents, event_type, claimed, accUsd, accTokenB,
                deposit, out, sortVars, batchVars, krystalVars, mergeVars,
                trackVars, mainVars>>

\* an iteration in which fn returns: return await fn()
AttemptReturns ==
    \E outcome \in FnOutcomes :
        /\ pc = "for"
        /\ LoopCondition(loop_i, retries)
        /\ outcome.ok
        /\ attempts' = Append(attempts, outcome)
        /\ settled' = [returned |-> outcome.value]
        /\ pc' = "returned"
        /\ UNCHANGED <<retries, loop_i, lastError, rateLimitCalls, dateNow,
                       lastCallTimestamp>>
        /\ RetryFrame

\* an iteration in which fn throws: the catch block and i++
AttemptThrows ==
    \E outcome \in FnOutcomes :
        /\ pc = "for"
        /\ LoopCondition(loop_i, retries)
        /\ ~outcome.ok
        /\ attempts' = Append(attempts, outcome)
        /\ lastError' = [error |-> outcome.error]
        /\ dateNow' = dateNow + 1000 * (loop_i + 1)
        /\ loop_i' = loop_i + 1
        /\ UNCHANGED <<pc, retries, settled, rateLimitCalls, lastCallTimestamp>>
        /\ RetryFrame

\* the two throw statements after the loop
ThrowAfterLoop ==
    /\ pc = "for"
    /\ ~LoopCondition(loop_i, retries)
    /\ settled' = IF lastError # NoLocals
                  THEN [threw |-> lastError.error]
                  ELSE [threw |-> "No result after retries and no error captured"]
    /\ pc' = "threw"
    /\ UNCHANGED <<retries, loop_i, attempts, lastError, rateLimitCalls,
                   dateNow, lastCallTimestamp>>
    /\ RetryFrame

NextRetry ==
    \/ AttemptReturns
    \/ AttemptThrows
    \/ ThrowAfterLoop

\* a call of withRetry goes on while it can: each call of fn and each timer
\* ends
SpecRetry == InitRetry /\ [][NextRetry]_vars /\ WF_vars(NextRetry)

(***************************************************************************)
(* withRetry of the token mapping service: rateLimit before every attempt, *)
(* and only a response with status 429 is retried.                         *)
(***************************************************************************)
MIN_DELAY_MS == 500

baseDelayMs == 2000

\* the status of the response an error carries, 0 for an error without a
\* response
Statuses == {429, 404, 500, 0}

ApiOutcomes ==
    {[ok |-> TRUE, value |-> "data"]} \cup
        {[ok |-> FALSE, error |-> [status |-> st]] : st \in Statuses}

\* the time at which rateLimit returns
rateLimit(time, last) ==
    IF time - last < MIN_DELAY_MS THEN time + (MIN_DELAY_MS - (time - last))
    ELSE time

RECURSIVE Pow2(_)
Pow2(e) == IF e = 0 THEN 1 ELSE 2 * Pow2(e - 1)

\* the retry condition with i < retries written for i < retries - 1
RetryOnAnyAttempt(error, index, count) ==
    error.status = 429 /\ index < count

\* error.response?.status === 429 && i < retries - 1
RetryOn429(error, index, count) ==
    error.status = 429 /\ index < count - 1

InitTokenRetry ==
    /\ fn = "none"
    /\ pc = "for"
    /\ FoldIdle
    /\ SortIdle
    /\ BatchIdle
    /\ KrystalIdle
    /\ MergeIdle
    /\ TrackIdle
    /\ MainIdle
    /\ retries \in 0..MaxRetries
    /\ loop_i = 0
    /\ attempts = <<>>
    /\ lastError = NoLocals
    /\ settled = NoLocals
    /\ rateLimitCalls = 0
    /\ dateNow = 1000
    /\ lastCallTimestamp \in {0, 600, 800, 1000}

\* an iteration in which fn returns
ApiAttemptReturns ==
    \E outcome \in ApiOutcomes :
        /\ pc = "for"
        /\ loop_i < retries
        /\ outcome.ok
        /\ rateLimitCalls' = rateLimitCalls + 1
        /\ lastCallTimestamp' = rateLimit(dateNow, lastCallTimestamp)
        /\ dateNow' = lastCallTimestamp'
        /\ attempts' = Append(attempts, outcome)
        /\ settled' = [returned |-> outcome.value]
        /\ pc' = "returned"
        /\ UNCHANGED <<retries, loop_i, lastError>>
        /\ RetryFrame

\* an iteration in which fn throws and the catch block waits and continues
ApiAttemptRetried ==
    \E outcome \in ApiOutcomes :
        /\ pc = "for"
        /\ loop_i < retries
        /\ ~outcome.ok
        /\ RetryOn429(outcome.error, loop_i, retries)
        /\ rateLimitCalls' = rateLimitCalls + 1
        /\ lastCallTimestamp' = rateLimit(dateNow, lastCallTimestamp)
        /\ dateNow' = lastCallTimestamp' + baseDelayMs * Pow2(loop_i)
        /\ attempts' = Append(attempts, outcome)
        /\ loop_i' = loop_i + 1
        /\ UNCHANGED <<pc, retries, lastError, settled>>
        /\ RetryFrame

\* an iteration in which fn throws and the catch block rethrows
ApiAttemptRethrown ==
    \E outcome \in ApiOutcomes :
        /\ pc = "for"
        /\ loop_i < retries
        /\ ~outcome.ok
        /\ ~RetryOn429(outcome.error, loop_i, retries)
        /\ rateLimitCalls' = rateLimitCalls + 1
        /\ lastCallTimestamp' = rateLimit(dateNow, lastCallTimestamp)
        /\ dateNow' = lastCallTimestamp'
        /\ attempts' = Append(attempts, outcome)
        /\ settled' = [threw |-> outcome.error]
        /\ pc' = "threw"
        /\ UNCHANGED <<retries, loop_i, lastError>>
        /\ RetryFrame

\* throw new Error('Max retries reached') after the loop
MaxRetriesReached ==
    /\ pc = "for"
    /\ ~(loop_i < retries)
    /\ settled' = [threw |-> "Max retries reached"]
    /\ pc' = "threw"
    /\ UNCHANGED <<retries, loop_i, attempts, lastError, rateLimitCalls,
                   dateNow, lastCallTimestamp>>
    /\ RetryFrame

NextTokenRetry ==
    \/ ApiAttemptReturns
    \/ ApiAttemptRetried
    \/ ApiAttemptRethrown
    \/ MaxRetriesReached

SpecTokenRetry == InitTokenRetry /\ [][NextTokenRetry]_vars

(***************************************************************************)
(* Properties.                                                             *)
(***************************************************************************)
Zero == Num(0)

One == Num(1)

\* the step just taken is an iteration of the loop over an event of type t
LoopStep(t) == nEvents' = nEvents + 1 /\ event_type' = t

ReturnedUsd == fn = "Usd" /\ pc = "returned"

ReturnedTokenB == fn = "TokenB" /\ pc = "returned"

\* C1: a Claim Fees event raises the available-claimed amount of each token by
\* exactly the amount it raises the cumulative-claimed amount by (the event's
\* claimed amount), so amounts that earlier deposits consumed stay consumed.
C1_ClaimAddsClaimedAmount ==
    [][LoopStep("Claim Fees") =>
          /\ availableClaimedX' =
                 Add(availableClaimedX, Sub(cumulativeClaimedX', cumulativeClaimedX))
          /\ availableClaimedY' =
                 Add(availableClaimedY, Sub(cumulativeClaimedY', cumulativeClaimedY))]_vars

C3_RatiosInUnitInterval ==
    /\ deposit # NoLocals =>
          /\ Le(Zero, deposit.reinvestedRatioX) /\ Le(deposit.reinvestedRatioX, One)
          /\ Le(Zero, deposit.reinvestedRatioY) /\ Le(deposit.reinvestedRatioY, One)
          /\ deposit.depositXAdjusted = Zero => deposit.reinvestedRatioX = Zero
          /\ deposit.depositYAdjusted = Zero => deposit.reinvestedRatioY = Zero
    /\ ReturnedUsd =>
          Le(Zero, out.withdrawalRatio) /\ Le(out.withdrawalRatio, One)

\* a deposit that was half covered by claimed tokens, followed by the return of
\* a withdrawal ratio strictly between 0 and 1
C3_Witness ==
    /\ ReturnedUsd
    /\ deposit # NoLocals
    /\ deposit.reinvestedRatioX = Fin(1, 2)
    /\ Lt(Zero, out.withdrawalRatio) /\ Lt(out.withdrawalRatio, One)

\* C4: after every event the available-claimed amounts are >= 0, and the token
\* amount a Deposit event deducts as reinvested is at most the available-claimed
\* amount the token had before the event.
C4_ReinvestedWithinAvailable ==
    [][/\ Le(Zero, availableClaimedX') /\ Le(Zero, availableClaimedY')
       /\ LoopStep("Deposit") =>
             /\ Le(deposit'.reinvestedX, availableClaimedX)
             /\ Le(deposit'.reinvestedY, availableClaimedY)]_vars

\* a deposit consumed part of the available-claimed X and all of the
\* available-claimed Y
C4_Witness ==
    /\ event_type = "Deposit"
    /\ deposit.reinvestedX = One /\ availableClaimedX = One
    /\ deposit.reinvestedY = One /\ availableClaimedY = Zero

\* C5: whenever the USD reconstructor returns (some deposit had a positive
\* value), capitalDeposits + totalFeeReward + reinvestedFees = totalInflows and
\* reinvestedFees = totalDeposit - capitalDeposits, so that totalInflows is
\* totalDeposit + totalFeeReward.
C5_Conservation ==
    ReturnedUsd =>
        /\ StrictEq(Add(Add(capitalDepositsUsd, totalFeeRewardUsd),
                        out.reinvestedFeesUsd),
                    out.totalInflowsUsd)
        /\ StrictEq(out.reinvestedFeesUsd, Sub(totalDepositUsd, capitalDepositsUsd))
        /\ StrictEq(out.totalInflowsUsd, Add(totalDepositUsd, totalFeeRewardUsd))

\* a return with new capital, fee rewards and reinvested fees all positive
C5_Witness ==
    /\ ReturnedUsd
    /\ Lt(Zero, capitalDepositsUsd)
    /\ Lt(Zero, totalFeeRewardUsd)
    /\ Lt(Zero, out.reinvestedFeesUsd)

\* C6: when no Claim Fees event occurred (hence the cumulative-claimed amounts
\* are still 0) the USD reconstructor returns reinvestedFees = 0 and
\* capitalDeposits = totalDeposit.
C6_NoClaimsNoReinvestedFees ==
    (ReturnedUsd /\ cumulativeClaimedX = Zero /\ cumulativeClaimedY = Zero) =>
        /\ out.reinvestedFeesUsd = Zero
        /\ capitalDepositsUsd = totalDepositUsd

\* two deposits and a withdrawal, no claim
C6_Witness ==
    /\ ReturnedUsd
    /\ nEvents = 3
    /\ cumulativeClaimedX = Zero /\ cumulativeClaimedY = Zero
    /\ totalFeeRewardUsd = Zero
    /\ totalDepositUsd = Num(1500)
    /\ Lt(Zero, totalWithdrawalUsd)

\* the USD value of the deposit just processed
DepositUsdValue(d) ==
    Add(Add(d.capitalXUsd, d.reinvestedXUsd), Add(d.capitalYUsd, d.reinvestedYUsd))

\* the deposit just processed asked of each token at most what was available
FullyCovered(d, availableX, availableY) ==
    /\ Le(Mul(d.depositXAdjusted, MathPow10(tokenXDecimals)), availableX)
    /\ Le(Mul(d.depositYAdjusted, MathPow10(tokenYDecimals)), availableY)

\* the state of the USD reconstructor after Deposit(1000 USD) and then
\* Claim Fees(one unit of token Y, 50 USD)
C7_ScenarioClaimed ==
    /\ fn = "Usd" /\ nEvents = 2 /\ event_type = "Claim Fees"
    /\ totalDepositUsd = Num(1000) /\ totalFeeRewardUsd = Num(50)
    /\ totalWithdrawalUsd = Zero
    /\ cumulativeClaimedX = Zero /\ cumulativeClaimedY = One

\* its state after the third event, Deposit(the claimed unit of token Y, 50 USD)
C7_ScenarioEnd ==
    /\ fn = "Usd" /\ nEvents = 3 /\ event_type = "Deposit"
    /\ totalDepositUsd = Num(1050) /\ totalFeeRewardUsd = Num(50)
    /\ totalWithdrawalUsd = Zero
    /\ cumulativeClaimedX = Zero /\ cumulativeClaimedY = One
    /\ deposit.depositXAdjusted = Zero
    /\ DepositUsdValue(deposit) = Num(50)
    /\ deposit.reinvestedRatioY = One

\* C7: in the USD reconstructor a deposit made while nothing is available has
\* ratio 0 on both tokens and adds its whole USD value to capitalDeposits; a
\* deposit whose token amounts are covered by the available-claimed amounts
\* (events value a token amount of 0 at 0 USD), and one with ratio 1 on both
\* tokens, leave capitalDeposits unchanged and raise totalDeposit by their USD
\* value; and Deposit(1000), Claim Fees(50), Deposit(the claimed 50) ends with
\* capitalDeposits = 1000, totalDeposit = 1050 and reinvestedFees = 50.
C7_CoveredDepositIsReinvested ==
    [][/\ (fn = "Usd" /\ LoopStep("Deposit")) =>
             /\ Sub(totalDepositUsd', totalDepositUsd) = DepositUsdValue(deposit')
             /\ (availableClaimedX = Zero /\ availableClaimedY = Zero) =>
                    /\ deposit'.reinvestedRatioX = Zero
                    /\ deposit'.reinvestedRatioY = Zero
                    /\ Sub(capitalDepositsUsd', capitalDepositsUsd) =
                           DepositUsdValue(deposit')
             /\ FullyCovered(deposit', availableClaimedX, availableClaimedY) =>
                    capitalDepositsUsd' = capitalDepositsUsd
             /\ (deposit'.reinvestedRatioX = One /\ deposit'.reinvestedRatioY = One) =>
                    capitalDepositsUsd' = capitalDepositsUsd
       /\ (C7_ScenarioClaimed /\ LoopStep("Deposit")
              /\ deposit'.depositXAdjusted = Zero
              /\ DepositUsdValue(deposit') = Num(50)) =>
             /\ capitalDepositsUsd = Num(1000)
             /\ C7_ScenarioEnd'
             /\ capitalDepositsUsd' = Num(1000)
       /\ (C7_ScenarioEnd' /\ pc' = "returned") =>
             /\ capitalDepositsUsd' = Num(1000)
             /\ out'.reinvestedFeesUsd = Num(50)]_vars

\* the scenario was folded and its result returned
C7_Witness ==
    /\ C7_ScenarioEnd
    /\ pc = "returned"
    /\ capitalDepositsUsd = Num(1000)
    /\ out.reinvestedFeesUsd = Num(50)

\* the accumulated total deposit of the function that runs
TotalDepositOfFn == IF fn = "Usd" THEN totalDepositUsd ELSE totalDepositTokenB

C9_NetIsRealizedPlusUnrealized ==
    /\ ReturnedUsd =>
          StrictEq(out.netPNLUsd, Add(out.realizedPNLUsd, out.unrealizedPNLUsd))
    /\ ReturnedTokenB =>
          StrictEq(out.netPNLTokenB,
                   Add(out.realizedPNLTokenB, out.unrealizedPNLTokenB))

\* C10: in the USD reconstructor withdrawnCapital <= capitalDeposits and
\* remainingCapital >= 0; when totalWithdrawal >= totalInflows the withdrawal
\* ratio is 1, remainingCapital is 0 and realizedPNL is totalWithdrawal -
\* capitalDeposits.
C10_WithdrawalsCapped ==
    ReturnedUsd =>
        /\ Le(out.withdrawnCapitalUsd, capitalDepositsUsd)
        /\ Le(Zero, out.remainingCapitalUsd)
        /\ Le(out.totalInflowsUsd, totalWithdrawalUsd) =>
               /\ out.withdrawalRatio = One
               /\ out.remainingCapitalUsd = Zero
               /\ out.realizedPNLUsd = Sub(totalWithdrawalUsd, capitalDepositsUsd)

\* more was withdrawn than the modelled inflows of a position with capital
C10_Witness ==
    /\ ReturnedUsd
    /\ Lt(out.totalInflowsUsd, totalWithdrawalUsd)
    /\ Lt(Zero, capitalDepositsUsd)

\* the reinvested ratio a deposit of the raw amount of a token would get when
\* the given raw amount of it is available
RatioOfDeposit(available, decimals, amount) ==
    ReinvestedRatio(Div(available, MathPow10(decimals)),
                    Div(Num(amount), MathPow10(decimals)))

\* C11: a Withdrawal event adds its USD value to totalWithdrawal and changes
\* nothing else: the cumulative-claimed and available-claimed amounts,
\* capitalDeposits, totalDeposit and totalFeeReward keep their values, and so
\* does the reinvested ratio, which splits a deposit into capital and
\* reinvested fees, of every deposit that could come next.
C11_WithdrawalChangesOnlyTotalWithdrawal ==
    [][LoopStep("Withdrawal") =>
          /\ UNCHANGED claimed
          /\ UNCHANGED <<capitalDepositsUsd, totalDepositUsd, totalFeeRewardUsd>>
          /\ UNCHANGED <<capitalDepositsTokenB, totalDepositTokenB,
                         totalFeeRewardTokenB>>
          /\ fn = "Usd" =>
                 \E evt \in PnlEvent :
                     /\ evt.event_type = "Withdrawal"
                     /\ totalWithdrawalUsd' =
                            Add(totalWithdrawalUsd, eventUsdValue(evt))
          /\ UNCHANGED <<tokenXDecimals, tokenYDecimals>>
          /\ \A ax \in TokenXAmounts :
                 RatioOfDeposit(availableClaimedX', tokenXDecimals', ax) =
                     RatioOfDeposit(availableClaimedX, tokenXDecimals, ax)
          /\ \A ay \in TokenYAmounts :
                 RatioOfDeposit(availableClaimedY', tokenYDecimals', ay) =
                     RatioOfDeposit(availableClaimedY, tokenYDecimals, ay)]_vars

\* a withdrawal of positive value was folded while claimed tokens of both
\* kinds were available
C11_Witness ==
    /\ fn = "Usd" /\ pc = "loop"
    /\ event_type = "Withdrawal"
    /\ Lt(Zero, totalWithdrawalUsd)
    /\ Lt(Zero, availableClaimedX) /\ Lt(Zero, availableClaimedY)

\* every accumulator of the TokenB reconstructor and every returned TokenB
\* value is a finite number
FiniteTokenB ==
    /\ \A a \in {capitalDepositsTokenB, totalDepositTokenB, totalFeeRewardTokenB,
                  totalWithdrawalTokenB} : IsFinite(a)
    /\ \A a \in {out.reinvestedFeesTokenB, out.realizedPNLTokenB,
                  out.unrealizedPNLTokenB, out.netPNLTokenB} : IsFinite(a)

\* C13: the TokenB reconstructor accumulates every quantity, the capital part
\* of a deposit included, at the implied quote price of the event, so that on
\* every return with finite values 0 <= reinvestedFeesTokenB <=
\* totalDepositTokenB, and when nothing was claimed capitalDepositsTokenB =
\* totalDepositTokenB and reinvestedFeesTokenB = 0.
C13_TokenBFoldInQuoteTokenSpace ==
    (ReturnedTokenB /\ FiniteTokenB) =>
        /\ Le(Zero, out.reinvestedFeesTokenB)
        /\ Le(out.reinvestedFeesTokenB, totalDepositTokenB)
        /\ (cumulativeClaimedX = Zero /\ cumulativeClaimedY = Zero) =>
               /\ capitalDepositsTokenB = totalDepositTokenB
               /\ out.reinvestedFeesTokenB = Zero

\* C14: whatever a reconstructor returns is a finite number (a reconstructor
\* that cannot compute finite values throws instead).
C14_ReturnsFiniteNumbers ==
    /\ ReturnedUsd =>
           \A a \in {out.realizedPNLUsd, out.unrealizedPNLUsd, out.netPNLUsd,
                     capitalDepositsUsd, out.reinvestedFeesUsd,
                     totalFeeRewardUsd} : IsFinite(a)
    /\ ReturnedTokenB =>
           \A a \in {out.realizedPNLTokenB, out.unrealizedPNLTokenB,
                     out.netPNLTokenB, capitalDepositsTokenB,
                     out.reinvestedFeesTokenB, totalFeeRewardTokenB} : IsFinite(a)

\* C12: every call folds the events of the position in non-decreasing
\* onchain_timestamp order, and two calls made while the indexer holds the
\* same events fold them in the same order (events with equal timestamps
\* included).
C12_SameOrderInEveryCall ==
    /\ \A c \in 1..Len(folded) :
           \A i, j \in 1..Len(folded[c]) :
               i < j => folded[c][i].onchain_timestamp <=
                            folded[c][j].onchain_timestamp
    /\ \A c, d \in 1..Len(folded) : folded[c] = folded[d]

\* the sequence lists positions in input order, each at most once
InInputOrder(records) ==
    \A i, j \in 1..Len(records) : i < j => records[i] < records[j]

\* the positions whose iteration is over
Processed == IF pc \in {"for", "done"} THEN 1..pos ELSE 1..(pos - 1)

\* C15: in processPnlForPositions a position one of whose two calls threw is
\* reported and has no record; every other position whose iteration is over
\* has exactly one record; the records are in input order; and the call
\* returns only after the last position.
C15_FailingPositionIsLeftOut ==
    /\ InInputOrder(results) /\ InInputOrder(errors)
    /\ Range(results) \cap Range(errors) = {}
    /\ Range(results) \cup Range(errors) = Processed
    /\ pc = "thrown" => pos \notin Range(results)
    /\ pc = "done" => pos = positions

\* the call returned after the first of two positions failed and the second
\* succeeded
C15_Witness ==
    /\ pc = "done"
    /\ positions = 2
    /\ errors = <<1>>
    /\ results = <<2>>

\* a reconstructor is at the top of its loop
AtTopOfLoop == pc = "loop" /\ nEvents = 0

PClose(r) == Div(r.pA1, r.pB1)

ExcludedOrUnusable(r) ==
    \/ {r.tokenA_symbol, r.tokenB_symbol} \cap SKIP_SYMBOLS # {}
    \/ \E v \in {r.pA0, r.pB0, r.pA1, r.pB1} : IsNaN(v) \/ ~Gt(v, Zero)
    \/ \E v \in {r.totalDepositValue, r.totalWithdrawValue} :
           IsNaN(v) \/ ~Gt(v, Zero)
    \/ Le(r.maxPrice, r.minPrice)

\* C19: an iteration over a row with an excluded symbol, with an entry or
\* exit price or a deposit or withdrawal value that is missing, zero or
\* negative, or with minPrice >= maxPrice leaves detail_rows as it is; an
\* iteration over any other row appends exactly one detail row, of finite
\* values, for that row; and the aggregation counts the detail rows only.
C19_UnusableRowsAreSkipped ==
    [][/\ (pc = "closed" /\ row'.index = row.index + 1) =>
             IF ExcludedOrUnusable(row')
             THEN detail_rows' = detail_rows
             ELSE /\ Len(detail_rows') = Len(detail_rows) + 1
                  /\ SubSeq(detail_rows', 1, Len(detail_rows)) = detail_rows
                  /\ LET d == detail_rows'[Len(detail_rows')]
                     IN  /\ d.row = row'
                         /\ \A v \in {d.QA0, d.QB0, d.L, d.QA1, d.QB1, d.pnl_usd,
                                       d.pnl_tokenB} : IsFinite(v)
       /\ pc' = "aggregated" =>
             /\ detail_rows' = detail_rows
             /\ closed_agg'.rows = Len(detail_rows)]_vars

\* the first row was skipped, the second one got a detail row, and the
\* aggregation ran
C19_Witness ==
    /\ pc = "aggregated"
    /\ row.index = 2
    /\ Len(detail_rows) = 1
    /\ detail_rows[1].row.index = 2
    /\ closed_agg.rows = 1

\* the coefficients of the quadratic of a call
QuadraticA == Sub(Div(Sqrt(call.p_min), Sqrt(call.p_max)), One)

QuadraticB ==
    Add(Mul(call.x0, Sqrt(call.p_min)), Div(call.y0, Sqrt(call.p_max)))

QuadraticC == Mul(call.x0, call.y0)

\* |a - b| <= b / 10^6
WithinTolerance(a, b) ==
    /\ Le(Mul(Sub(a, b), Num(1000000)), b)
    /\ Le(Mul(Sub(b, a), Num(1000000)), b)

NoEntryPrice(r) ==
    \/ r.tokenA_provided = Zero
    \/ r.tokenB_provided = Zero
    \/ Le(r.initialUnderlyingValue, Zero)
    \/ \E Q0 \in {r.tokenA_provided, r.tokenB_provided} :
           LET p0 == Div(Div(r.initialUnderlyingValue, Num(2)), Q0)
           IN  ~IsFinite(p0) \/ ~Lt(Zero, p0)

\* an initial or current quantity of the row is negative
NegativeQuantity(r) ==
    \E q \in {r.tokenA_provided, r.tokenB_provided, r.tokenA_current,
              r.tokenB_current} : Lt(q, Zero)

RowsOf(t, k) == {r \in t : r.key = k}

\* the PnL (USD, token B) of the key k in the aggregate a, 0 without a row
Contribution(a, k) ==
    IF RowsOf(a, k) = {} THEN <<Zero, Zero>>
    ELSE LET r == CHOOSE r \in RowsOf(a, k) : TRUE
         IN  <<r.pnl_usd, r.pnl_tokenB>>

\* C21: in the merged table every key (chain, pool, account) of open_agg or
\* of closed_agg has exactly one row, and the LP PnL of that row is the sum
\* of the open and the closed PnL of the key, with 0 for a side that has no
\* row for the key.
C21_MergeIsUnionOverKeys ==
    pc = "merged" =>
        \A k \in {r.key : r \in open_agg \cup closed_agg} :
            /\ Cardinality(RowsOf(final_df, k)) = 1
            /\ \A r \in RowsOf(final_df, k) :
                   /\ r.lp_pnl_usd =
                          Add(Contribution(open_agg, k)[1],
                              Contribution(closed_agg, k)[1])
                   /\ r.lp_pnl_tokenB =
                          Add(Contribution(open_agg, k)[2],
                              Contribution(closed_agg, k)[2])

\* C22: after every prefix of the events folded by the USD reconstructor
\* (all USD values are non-negative) 0 <= capitalDeposits <= totalDeposit;
\* the parts a deposit splits a token's USD value into are not negative; and
\* the reinvestedFees it returns are neither negative nor above totalDeposit.
C22_CapitalWithinTotalDeposit ==
    fn = "Usd" =>
        /\ Le(Zero, capitalDepositsUsd)
        /\ Le(capitalDepositsUsd, totalDepositUsd)
        /\ deposit # NoLocals =>
               \A part \in {deposit.reinvestedXUsd, deposit.capitalXUsd,
                             deposit.reinvestedYUsd, deposit.capitalYUsd} :
                   Le(Zero, part)
        /\ ReturnedUsd =>
               /\ Le(Zero, out.reinvestedFeesUsd)
               /\ Le(out.reinvestedFeesUsd, totalDepositUsd)

\* a deposit that was partly new capital and partly reinvested fees, after
\* which the reconstructor returned
C22_Witness ==
    /\ ReturnedUsd
    /\ nEvents = 3
    /\ Lt(Zero, capitalDepositsUsd)
    /\ Lt(capitalDepositsUsd, totalDepositUsd)
    /\ capitalDepositsUsd = Num(500)
    /\ totalDepositUsd = Num(1000)

\* C23: a call of updatePositionTracking moves to the closed store only
\* positions that no monitored wallet holds on-chain.
C23_HeldPositionIsNeverClosed ==
    [][op'.name = "updatePositionTracking" =>
          \A k \in closedPositions' \ closedPositions :
              onchain[k] # "held"]_vars

\* C24: no key is in both stores; a key enters the open store only from
\* untracked and the closed store only from the open store, and never leaves
\* the closed store; and closePosition on a key that is not open changes
\* neither store.
C24_TrackingLifecycle ==
    [][/\ openPositions' \cap closedPositions' = {}
       /\ \A k \in openPositions' \ openPositions : k \notin closedPositions
       /\ \A k \in closedPositions' \ closedPositions : k \in openPositions
       /\ closedPositions \subseteq closedPositions'
       /\ openPositions \ openPositions' \subseteq closedPositions'
       /\ (op'.name = "closePosition" /\ op'.key \notin openPositions) =>
              (openPositions' = openPositions /\
               closedPositions' = closedPositions)]_vars

\* closePosition was called for a closed key while another key is open
C24_Witness ==
    /\ op # NoLocals
    /\ op.name = "closePosition"
    /\ op.key \in closedPositions
    /\ openPositions # {}
    /\ Cardinality(closedPositions) = 2

\* the Solana wallets and the EVM wallets of the configuration
SolanaWalletSet == {SOLANA_WALLET_ADDRESSES[i] : i \in DOMAIN SOLANA_WALLET_ADDRESSES}

EvmWalletSet == {EVM_WALLET_ADDRESSES[i] : i \in DOMAIN EVM_WALLET_ADDRESSES}

\* C25: an iteration of main() in which the wallet throws sets the error flag
\* of the wallet's kind in the flags file and goes on with the next wallet,
\* keeping the records collected so far; the statements after a loop are
\* reached only when every wallet of the kind was processed and write the
\* collected records; and a timestamp changes only to the time of a run in
\* which no wallet of its kind threw and a record was collected.
C25_WalletFailureIsFlaggedAndIsolated ==
    [][/\ (pc = "solana" /\ thrown' # thrown) =>
              /\ flagsFile'.LP_FETCHING_METEORA_ERROR
              /\ pc' = "solana" /\ wallet' = wallet + 1
              /\ allMeteoraRecords' = allMeteoraRecords
       /\ (pc = "evm" /\ thrown' # thrown) =>
              /\ flagsFile'.LP_FETCHING_KRYSTAL_ERROR
              /\ pc' = "evm" /\ wallet' = wallet + 1
              /\ allKrystalRecords' = allKrystalRecords
       /\ (pc = "solana" /\ pc' = "evm") =>
              /\ wallet = Len(SOLANA_WALLET_ADDRESSES)
              /\ allMeteoraRecords > 0 =>
                     latestCsv'.meteora = allMeteoraRecords
       /\ (pc = "evm" /\ pc' = "completed") =>
              /\ wallet = Len(EVM_WALLET_ADDRESSES)
              /\ allKrystalRecords > 0 =>
                     latestCsv'.krystal = allKrystalRecords
       /\ flagsFile'.last_meteora_lp_update # flagsFile.last_meteora_lp_update =>
              /\ thrown \cap SolanaWalletSet = {}
              /\ allMeteoraRecords > 0
              /\ flagsFile'.last_meteora_lp_update = run
       /\ flagsFile'.last_krystal_lp_update # flagsFile.last_krystal_lp_update =>
              /\ thrown \cap EvmWalletSet = {}
              /\ allKrystalRecords > 0
              /\ flagsFile'.last_krystal_lp_update = run]_vars

\* the first Solana wallet threw in the second run, the record of the second
\* one was written, and the Meteora timestamp is still that of the first run
C25_Witness ==
    /\ pc = "completed"
    /\ run = 2
    /\ thrown = {"wallet1"}
    /\ allMeteoraRecords = 1
    /\ latestCsv.meteora = 1
    /\ flagsFile.LP_FETCHING_METEORA_ERROR
    /\ flagsFile.last_meteora_lp_update = 1
    /\ flagsFile.last_krystal_lp_update = 2

\* C26: a wallet whose positions could not be fetched from the upstream
\* source in this run has thrown up to main(), and the error flag of its kind
\* is set.
C26_FetchFailureIsSurfaced ==
    \A w \in fetchError :
        /\ w \in thrown
        /\ w \in SolanaWalletSet => flagsFile.LP_FETCHING_METEORA_ERROR
        /\ w \in EvmWalletSet => flagsFile.LP_FETCHING_KRYSTAL_ERROR

\* C27: when a run of main() completes and no wallet threw in it, both error
\* flags in the flags file are false.
C27_CleanRunClearsFlags ==
    (pc = "completed" /\ thrown = {}) =>
        /\ ~flagsFile.LP_FETCHING_METEORA_ERROR
        /\ ~flagsFile.LP_FETCHING_KRYSTAL_ERROR

\* the attempts before the last one
Earlier(calls) == {j \in 1..Len(calls) : j < Len(calls)}

\* C28: withRetry of the Meteora adapter calls fn at most `retries` times;
\* when it returns, the last call of fn is the first that succeeded and its
\* value is returned; when it throws after calling fn, every one of the
\* `retries` calls failed and the error of the last one is thrown; and every
\* call of withRetry returns or throws in the end.
C28_RetryBoundedAndTerminates ==
    /\ [](/\ Len(attempts) <= retries
          /\ \A j \in Earlier(attempts) : ~attempts[j].ok
          /\ pc = "returned" =>
                 /\ attempts[Len(attempts)].ok
                 /\ settled = [returned |-> attempts[Len(attempts)].value]
          /\ (pc = "threw" /\ attempts # <<>>) =>
                 /\ Len(attempts) = retries
                 /\ ~attempts[Len(attempts)].ok
                 /\ settled = [threw |-> attempts[Len(attempts)].error])
    /\ <>(pc \in {"returned", "threw"})

\* three failing attempts with different errors, the last one thrown
C28_Witness ==
    /\ pc = "threw"
    /\ retries = 3
    /\ Len(attempts) = 3
    /\ attempts[1].error = "TimeoutError"
    /\ attempts[2].error = "FetchError"
    /\ settled = [threw |-> "RpcError"]

\* C29: withRetry of the token mapping service calls fn at most `retries`
\* times and rateLimit once before each call; every attempt before the last
\* one failed with status 429; and an error is thrown as it is on the attempt
\* where it occurs when its status is not 429 or the attempt is the last one
\* allowed.
C29_RetriesOnlyOn429 ==
    /\ Len(attempts) <= retries
    /\ rateLimitCalls = Len(attempts)
    /\ \A j \in Earlier(attempts) :
           ~attempts[j].ok /\ attempts[j].error.status = 429
    /\ (attempts # <<>> /\ ~attempts[Len(attempts)].ok) =>
           LET last == attempts[Len(attempts)]
           IN  IF last.error.status # 429 \/ Len(attempts) = retries
               THEN pc = "threw" /\ settled = [threw |-> last.error]
               ELSE pc = "for"
    /\ (attempts # <<>> /\ attempts[Len(attempts)].ok) =>
           /\ pc = "returned"
           /\ settled = [returned |-> attempts[Len(attempts)].value]

\* the third of three allowed attempts failed with status 429 and was thrown
C29_Witness ==
    /\ pc = "threw"
    /\ retries = 3
    /\ Len(attempts) = 3
    /\ settled = [threw |-> [status |-> 429]]
    /\ rateLimitCalls = 3

\* C30: when both reconstructors have run their prologue for the position,
\* the events the TokenB reconstructor folds are the events the USD
\* reconstructor folded.
C30_BothResultsFromSameEvents ==
    Len(folded) = 2 => Range(folded[1]) = Range(folded[2])

====
